---- MODULE Spec2Model ----
(***************************************************************************)
(* Presence-change detection and broadcast dispatch of the steam-info      *)
(* plugin: the timer tick, broadcast(), the per-binding classification,    *)
(* sendBroadcast() with its two helpers, and the end-of-cycle commit and   *)
(* eviction, modelled from src/src/index.ts lines 610-891 (the revision    *)
(* that matches src/src/service.ts).                                       *)
(***************************************************************************)
EXTENDS Integers, Sequences, FiniteSets, TLC

VARIABLES
  steam_channel,  \* rows of table steam_channel
  steam_bind,     \* rows of table steam_bind
  statusCache,    \* Map steamid -> PlayerSummary
  playMeta,       \* Map steamid -> { lastLeftAt?, lastLeftGame? }
  lastSeenAt,     \* Map steamid -> timestamp
  skipFirstBroadcast, \* the timer's flag, from config.steamDisableBroadcastOnStartup
  ticks,          \* number of timer ticks so far
  startedAt,      \* number of timer ticks there had been when apply() last ran
  cyc,            \* per in-flight broadcast() call: its locals and position
  delivered,      \* history: per channel, identity and game, how many lines
                  \* bots have accepted since statusCache last took a
                  \* summary of the identity
  gameNameCache,  \* SteamService.gameNameCache: appid -> localized name
  nameCall,       \* the last call of getLocalizedGameName and what it did
  summariesCall,  \* the last call of getPlayerSummaries and what it did
  steamIdCall,    \* the last call of getSteamId and what it did
  commands        \* the calls of steam.bind, steam.unbind and steam.nickname in
                  \* flight: what each has read and where it is

vars ==
  <<steam_channel, steam_bind, statusCache, playMeta, lastSeenAt,
    skipFirstBroadcast, ticks, cyc, delivered, gameNameCache, nameCall, summariesCall,
    steamIdCall, commands, startedAt>>

\* The state of the SteamService and the records of its calls.
service == <<gameNameCache, nameCall, summariesCall, steamIdCall>>

----------------------------------------------------------------------------
(* Bounds of the model *)

MaxTicks == 3
MaxAge == 2000000000

----------------------------------------------------------------------------
(* Program constants *)

STALE_TTL_MS == 7 * 24 * 60 * 60 * 1000
DEBOUNCE_MS == 10 * 60 * 1000
PUSH_DELAY_MIN == 4000
PUSH_DELAY_SPAN == 6000

----------------------------------------------------------------------------
(* Universe of values *)

Slots == {1, 2}
SteamIds == {"X", "Y"}
NoGame == ""
NoBot == <<>>

\* Time is in milliseconds and is kept relative to the instant of the latest
\* timer tick: Date.now() reads Now, and when d milliseconds pass every stored
\* timestamp moves back by d. The code reads timestamps only in differences
\* now - ts and in the test !meta.lastLeftAt, which no stored timestamp meets
\* (a stored timestamp is Now minus a sum of Deltas, never 0).
Now == 1

\* Time that passes between two timer ticks.
Deltas == {DEBOUNCE_MS - 1, DEBOUNCE_MS, STALE_TTL_MS, STALE_TTL_MS + 1}

\* Values of Math.random() * PUSH_DELAY_SPAN, floored.
RandomSamples == {0, PUSH_DELAY_SPAN - 1}

Personaname(id) == IF id = "X" THEN "Xavier" ELSE "Yvonne"
GameId(game) == IF game = "A" THEN "10" ELSE ""
LocalizedName(gameid) == IF gameid = "10" THEN "A-zh" ELSE ""

Summary(id, game) ==
  [steamid |-> id, personaname |-> Personaname(id),
   gameextrainfo |-> game, gameid |-> GameId(game)]

NoSummary == [steamid |-> "", personaname |-> "", gameextrainfo |-> NoGame, gameid |-> ""]

\* What the Steam API can report for an identity.
FetchableGames(id) == IF id = "X" THEN {NoGame, "A", "B"} ELSE {NoGame, "A"}

EmptyMeta == [lastLeftAt |-> 0, lastLeftGame |-> NoGame]

InitChannels ==
  << [id |-> "c1", enable |-> TRUE, platform |-> "onebot", assignee |-> "b1"],
     [id |-> "c2", enable |-> TRUE, platform |-> "", assignee |-> ""] >>

InitBinds ==
  << [id |-> 1, userId |-> "u1", channelId |-> "c1", steamId |-> "X", nickname |-> "Nick"],
     [id |-> 2, userId |-> "u2", channelId |-> "c1", steamId |-> "Y", nickname |-> ""],
     [id |-> 3, userId |-> "u3", channelId |-> "c2", steamId |-> "X", nickname |-> ""] >>

\* config.startBroadcastType ("" when unset) and config.enablePushDelay.
\* enablePushDelay is read by sendPlayerImages alone, which the values list,
\* all, none and text never reach: it is varied for the others.
BroadcastTypes == {"", "all", "part", "none", "list", "text_image", "image", "text"}

Configs ==
  {cfg \in [startBroadcastType : BroadcastTypes, enablePushDelay : BOOLEAN] :
     cfg.enablePushDelay \/ cfg.startBroadcastType \in {"", "part", "text_image", "image"}}

NoConfig == [startBroadcastType |-> "", enablePushDelay |-> FALSE]

\* ctx.bots, in registration order, as it can be when a channel is dispatched.

BotRegistries ==
  { <<>>, << <<"onebot", "b1">> >>, << <<"onebot", "b2">> >>,
    << <<"onebot", "b2">>, <<"onebot", "b1">> >> }

----------------------------------------------------------------------------
(* JavaScript Map helpers *)

Range(s) == {s[i] : i \in DOMAIN s}

\* A set that writes v at every key of the map.
MapSetEvery(m, key, v) == [x \in DOMAIN m \cup {key} |-> v]

MapSet(m, key, v) == [x \in DOMAIN m \cup {key} |-> IF x = key THEN v ELSE m[x]]

MapDelete(m, key) == [x \in DOMAIN m \ {key} |-> m[x]]

MapGet(m, key, default) == IF key \in DOMAIN m THEN m[key] ELSE default
----------------------------------------------------------------------------
(* SteamService.getLocalizedGameName (service.ts 97-119) *)

MAX_ATTEMPTS == 3

AppIds == {"10", "20"}

\* data[appid].data.name of the store's answer for appid
StoreName(appid) == IF appid = "10" THEN "A-zh" ELSE "B-zh"

\* What a request of appdetails can come to: an answer with success and the
\* name, an answer without success, or an exception (the request fails, or
\* the answer has success and no data).
NameResponses == {"name", "unsuccessful", "throw"}

RECURSIVE NameAttempt(_, _, _)
\* The for loop from the given attempt on; responses[i] is what the i-th
\* request comes to. waits are the pauses before the retries, in ms.
NameAttempt(attempt, appid, responses) ==
  IF attempt > MAX_ATTEMPTS
  THEN [name |-> "", found |-> FALSE, requests |-> attempt - 1, waits |-> <<>>]
  ELSE IF responses[attempt] = "name"
  THEN [name |-> StoreName(appid), found |-> TRUE, requests |-> attempt, waits |-> <<>>]
  ELSE IF responses[attempt] = "unsuccessful"
  THEN [name |-> "", found |-> FALSE, requests |-> attempt, waits |-> <<>>]
  ELSE IF attempt = MAX_ATTEMPTS
  THEN NameAttempt(attempt + 1, appid, responses)
  ELSE LET rest == NameAttempt(attempt + 1, appid, responses)
       IN [rest EXCEPT !.waits = <<attempt * 1000>> \o @]

\* getLocalizedGameName that asks the store whatever gameNameCache holds.
getLocalizedGameNameUncached(cache, appid, responses) ==
  LET r == NameAttempt(1, appid, responses)
  IN [result |-> r.name, requests |-> r.requests, waits |-> r.waits,
      cache |-> IF r.found THEN MapSet(cache, appid, r.name) ELSE cache,
      thrown |-> FALSE]

\* The call: its result, the requests it made, and gameNameCache after it.
\* Every exception of the loop is caught in the loop, and the catch clause
\* only logs or waits.
getLocalizedGameName(cache, appid, responses) ==
  IF appid \in DOMAIN cache
  THEN [result |-> cache[appid], requests |-> 0, waits |-> <<>>, cache |-> cache,
        thrown |-> FALSE]
  ELSE LET r == NameAttempt(1, appid, responses)
       IN [result |-> r.name, requests |-> r.requests, waits |-> r.waits,
           cache |-> IF r.found THEN MapSet(cache, appid, r.name) ELSE cache,
           thrown |-> FALSE]

NoNameCall ==
  [called |-> FALSE, appid |-> "", responses |-> <<>>, hit |-> FALSE, cached |-> "",
   result |-> "", requests |-> 0, waits |-> <<>>, thrown |-> FALSE]

----------------------------------------------------------------------------
(* SteamService.getPlayerSummaries (service.ts 127-154) *)

BATCH_SIZE == 100

\* The most batches a call of the model is made with.
MaxBatches == 2

\* The longest input of getSteamId, but for the numbers around the offset.
MaxInputLen == 3

\* config.steamApiKey as it can be configured
KeyLists == {<<>>, <<"k1">>, <<"k1", "k2">>}

\* The lengths of steamIds the model calls with: at, just under and just
\* over a whole number of batches.
IdCounts ==
  {n \in 0..(MaxBatches * BATCH_SIZE) : n % BATCH_SIZE \in {0, 1, BATCH_SIZE - 1}}

\* steamIds: the identities are numbered in the order of the list.
SteamIdList(n) == [i \in 1..n |-> i]

\* What a request of GetPlayerSummaries can come to: an answer with
\* response.players (the summaries of the ids asked for), an answer without,
\* or an exception.
BatchResponses == {"players", "nothing", "throw"}

\* TryKeys that gives a batch up when its first key fails.
TryKeysFirstOnly(k, keys, chunk, answers) ==
  IF k > Len(keys) THEN [requests |-> <<>>, players |-> <<>>, success |-> FALSE]
  ELSE IF answers[k] = "players"
  THEN [requests |-> <<keys[k]>>, players |-> chunk, success |-> TRUE]
  ELSE [requests |-> <<keys[k]>>, players |-> <<>>, success |-> FALSE]

RECURSIVE TryKeys(_, _, _, _)
\* for (const key of this.config.steamApiKey) { try { ... break } catch { } },
\* from the k-th key on; answers[k] is what the request with the k-th key
\* comes to.
TryKeys(k, keys, chunk, answers) ==
  IF k > Len(keys) THEN [requests |-> <<>>, players |-> <<>>, success |-> FALSE]
  ELSE IF answers[k] = "players"
  THEN [requests |-> <<keys[k]>>, players |-> chunk, success |-> TRUE]
  ELSE LET rest == TryKeys(k + 1, keys, chunk, answers)
       IN [rest EXCEPT !.requests = <<keys[k]>> \o @]

RECURSIVE ChunksFrom(_, _, _, _, _)
\* for (let i = 0; i < steamIds.length; i += 100) { ... }, from i on.
\* ipChecks counts the calls of checkAndLogIp, which catches what it throws.
ChunksFrom(i, steamIds, keys, responses, enableIpCheck) ==
  IF i >= Len(steamIds) THEN [players |-> <<>>, requests |-> <<>>, ipChecks |-> 0]
  ELSE
    LET last == IF i + BATCH_SIZE < Len(steamIds) THEN i + BATCH_SIZE ELSE Len(steamIds)
        chunk == SubSeq(steamIds, i + 1, last)
        t == TryKeys(1, keys, chunk, responses[(i \div BATCH_SIZE) + 1])
        rest == ChunksFrom(i + BATCH_SIZE, steamIds, keys, responses, enableIpCheck)
    IN [players |-> t.players \o rest.players,
        requests |-> <<[chunk |-> chunk, keys |-> t.requests]>> \o rest.requests,
        ipChecks |-> (IF ~t.success /\ enableIpCheck THEN 1 ELSE 0) + rest.ipChecks]

getPlayerSummaries(steamIds, keys, responses, enableIpCheck) ==
  LET r == IF Len(steamIds) = 0 THEN [players |-> <<>>, requests |-> <<>>, ipChecks |-> 0]
           ELSE ChunksFrom(0, steamIds, keys, responses, enableIpCheck)
  IN [players |-> r.players, requests |-> r.requests, ipChecks |-> r.ipChecks,
      thrown |-> FALSE]

NoSummariesCall ==
  [called |-> FALSE, steamIds |-> <<>>, keys |-> <<>>, responses |-> <<>>,
   enableIpCheck |-> FALSE, players |-> <<>>, requests |-> <<>>, ipChecks |-> 0,
   thrown |-> FALSE]

----------------------------------------------------------------------------
(* SteamService.getSteamId (service.ts 121-125). A string is the sequence  *)
(* of its characters; a BigInt is the sequence of its decimal digits, the   *)
(* most significant first and not 0 unless the number is 0.                 *)

Digits == <<"0", "1", "2", "3", "4", "5", "6", "7", "8", "9">>

Null == <<"null">>

\* const STEAM_ID_OFFSET = BigInt('76561197960265728')
STEAM_ID_OFFSET == <<7, 6, 5, 6, 1, 1, 9, 7, 9, 6, 0, 2, 6, 5, 7, 2, 8>>

\* /^\d+$/.test(input)
IsDecimal(input) ==
  /\ Len(input) > 0
  /\ \A i \in DOMAIN input : \E d \in DOMAIN Digits : Digits[d] = input[i]

DigitValue(ch) == (CHOOSE d \in DOMAIN Digits : Digits[d] = ch) - 1

RECURSIVE Normal(_)
\* The digits without their leading zeros
Normal(ds) == IF Len(ds) > 1 /\ ds[1] = 0 THEN Normal(Tail(ds)) ELSE ds

\* BigInt(input), for an input of decimal digits
BigInt(input) == Normal([i \in DOMAIN input |-> DigitValue(input[i])])

\* a < b
BigIntLess(a, b) ==
  \/ Len(a) < Len(b)
  \/ /\ Len(a) = Len(b)
     /\ \E i \in DOMAIN a : a[i] < b[i] /\ \A j \in 1..(i - 1) : a[j] = b[j]

RECURSIVE AddFrom(_, _, _, _)
\* The digits of a + b from the i-th digit from the right on, with the carry
\* of the digits before.
AddFrom(a, b, i, carry) ==
  LET DigitAt(x) == IF i <= Len(x) THEN x[Len(x) - i + 1] ELSE 0
      sum == DigitAt(a) + DigitAt(b) + carry
  IN IF i > Len(a) /\ i > Len(b)
     THEN IF carry = 0 THEN <<>> ELSE <<carry>>
     ELSE AddFrom(a, b, i + 1, sum \div 10) \o <<sum % 10>>

\* a + b
BigIntAdd(a, b) == AddFrom(a, b, 1, 0)

\* id.toString()
BigIntToString(id) == [i \in DOMAIN id |-> Digits[id[i] + 1]]

\* getSteamId that adds the offset whatever the number is.
getSteamIdAlwaysAdds(input) ==
  IF ~IsDecimal(input) THEN Null
  ELSE BigIntToString(BigIntAdd(BigInt(input), STEAM_ID_OFFSET))

\* if (!/^\d+$/.test(input)) return null
\* const id = BigInt(input)
\* return id < STEAM_ID_OFFSET ? (id + STEAM_ID_OFFSET).toString() : input
getSteamId(input) ==
  IF ~IsDecimal(input) THEN Null
  ELSE LET id == BigInt(input)
       IN IF BigIntLess(id, STEAM_ID_OFFSET)
          THEN BigIntToString(BigIntAdd(id, STEAM_ID_OFFSET))
          ELSE input

\* The string of a sequence of characters written as digits, letters or
\* blanks.
Chars == {"0", "1", "9", "a", " "}

\* The inputs of getSteamId: every string of at most MaxInputLen characters,
\* and the numbers around STEAM_ID_OFFSET.
SteamIdInputs ==
  UNION {[1..n -> Chars] : n \in 0..MaxInputLen}
    \cup { BigIntToString(STEAM_ID_OFFSET),
           <<"7","6","5","6","1","1","9","7","9","6","0","2","6","5","7","2","7">>,
           <<"7","6","5","6","1","1","9","7","9","6","0","2","6","5","7","2","9">>,
           <<"0","7","6","5","6","1","1","9","7","9","6","0","2","6","5","7","2","8">>,
           <<"0","0","7","6","5","6","1","1","9","7","9","6","0","2","6","5","7","2","7">>,
           <<"9","9","9","9","9","9","9","9","9","9","9","9","9","9","9","9","9">>,
           <<"1","0","0","0","0","0","0","0","0","0","0","0","0","0","0","0","0","0">>,
           <<"7","6","5","6","1","1","9","7","9","6","0","2","6","5","7","2","8","a">> }

NoSteamIdCall == [called |-> FALSE, input |-> <<>>, result |-> Null,
                  reapplied |-> FALSE, again |-> Null]

\* The service after its construction.
InitService ==
  /\ gameNameCache = <<>>
  /\ nameCall = NoNameCall
  /\ summariesCall = NoSummariesCall
  /\ steamIdCall = NoSteamIdCall

----------------------------------------------------------------------------
(* broadcast(): classification of one binding (index.ts 803-825) *)

\* `${name} 开始玩 ${displayGameName} 了`
Line(name, displayGameName) == [name |-> name, game |-> displayGameName]

\* const name = bind.nickname || current.personaname
DisplayName(bind, current) ==
  IF bind.nickname # "" THEN bind.nickname ELSE current.personaname

\* let displayGameName = newGame
\* if (newGame && current.gameid) displayGameName = await getLocalizedGameName(gameid) || newGame
DisplayGameName(current, localized) ==
  IF current.gameextrainfo # NoGame /\ current.gameid # "" /\ localized # ""
  THEN localized
  ELSE current.gameextrainfo

\* The entry pushed on startGamingPlayers.
StartGamingPlayer(bind, current, localized) ==
  [steamid |-> current.steamid, personaname |-> current.personaname,
   nickname |-> bind.nickname, gameextrainfo |-> DisplayGameName(current, localized)]

\* Skips without the test of old: an identity never cached counts as idle.
SkipsUnfetchedOnly(id, currentMap, cache) == id \notin DOMAIN currentMap

\* Skips without the test of current: an identity the fetch left out counts
\* as idle.
SkipsUncachedOnly(id, currentMap, cache) == id \notin DOMAIN cache

\* if (!current || !old) continue (index.ts 805)
Skips(id, currentMap, cache) == id \notin DOMAIN currentMap \/ id \notin DOMAIN cache

\* AnnounceStart with > for >=: a departure exactly one window old is debounced.
AnnounceStartStrict(meta, newGame, now) ==
  \/ meta.lastLeftAt = 0
  \/ meta.lastLeftGame # newGame
  \/ now - meta.lastLeftAt > DEBOUNCE_MS

\* AnnounceStart without the test of lastLeftGame: the window holds back the
\* start of any game.
AnnounceStartAnyGame(meta, newGame, now) ==
  \/ meta.lastLeftAt = 0
  \/ now - meta.lastLeftAt >= DEBOUNCE_MS

\* The condition of line 814 under which a start is announced.
AnnounceStart(meta, newGame, now) ==
  \/ meta.lastLeftAt = 0
  \/ meta.lastLeftGame # newGame
  \/ now - meta.lastLeftAt >= DEBOUNCE_MS

\* The outcome of one iteration: the channel's msgs and startGamingPlayers and
\* the identity's entry of playMeta.
Outcome(msgs, startGamingPlayers, meta) ==
  [msgs |-> msgs, startGamingPlayers |-> startGamingPlayers, meta |-> meta]

\* OnStart with playMeta.set inside the if: a debounced start keeps the record.
OnStartKeepsRecord(msgs, startGamingPlayers, meta, line, player, newGame, now) ==
  IF AnnounceStart(meta, newGame, now)
  THEN Outcome(Append(msgs, line), Append(startGamingPlayers, player), EmptyMeta)
  ELSE Outcome(msgs, startGamingPlayers, meta)

\* if (newGame && !oldGame) { ... } (index.ts 813-818)
OnStart(msgs, startGamingPlayers, meta, line, player, newGame, now) ==
  IF AnnounceStart(meta, newGame, now)
  THEN Outcome(Append(msgs, line), Append(startGamingPlayers, player), EmptyMeta)
  ELSE Outcome(msgs, startGamingPlayers, EmptyMeta)

\* OnSwitch as the first revision of broadcast() has it (index.ts 445-448):
\* the player is pushed, no line is.
OnSwitchPlayerOnly(msgs, startGamingPlayers, line, player) ==
  Outcome(msgs, Append(startGamingPlayers, player), EmptyMeta)

\* OnSwitch without line 821: the line is pushed, the player is not.
OnSwitchLineOnly(msgs, startGamingPlayers, line, player) ==
  Outcome(Append(msgs, line), startGamingPlayers, EmptyMeta)

\* else if (newGame && oldGame && newGame !== oldGame) { ... } (index.ts 819-822)
OnSwitch(msgs, startGamingPlayers, line, player) ==
  Outcome(Append(msgs, line), Append(startGamingPlayers, player), EmptyMeta)

\* OnStop recording newGame, which is empty, for oldGame.
OnStopRecordsNewGame(msgs, startGamingPlayers, oldGame, now) ==
  Outcome(msgs, startGamingPlayers, [lastLeftAt |-> now, lastLeftGame |-> NoGame])

\* else if (!newGame && oldGame) { ... } (index.ts 823-825)
OnStop(msgs, startGamingPlayers, oldGame, now) ==
  Outcome(msgs, startGamingPlayers, [lastLeftAt |-> now, lastLeftGame |-> oldGame])

\* Stopped without the test of oldGame: an identity idle before and after
\* counts as having stopped.
StoppedOrIdle(newGame, oldGame) == newGame = NoGame

\* else if (!newGame && oldGame) (index.ts 823)
Stopped(newGame, oldGame) == newGame = NoGame /\ oldGame # NoGame

\* The body of the loop over channelBinds for one bind. c is the cycle's record;
\* the result is the cycle's msgs and startGamingPlayers and playMeta after the
\* iteration. The loop writes neither statusCache nor lastSeenAt.
ClassifyBind(bind, c, stores, localized) ==
  LET id == bind.steamId
      unchanged == [msgs |-> c.msgs, startGamingPlayers |-> c.startGamingPlayers,
                    playMeta |-> stores.playMeta]
  IN
  IF Skips(id, c.currentMap, stores.statusCache)
  THEN unchanged
  ELSE
    LET current == MapGet(c.currentMap, id, NoSummary)
        old == MapGet(stores.statusCache, id, NoSummary)
        oldGame == old.gameextrainfo
        newGame == current.gameextrainfo
        line == Line(DisplayName(bind, current), DisplayGameName(current, localized))
        player == StartGamingPlayer(bind, current, localized)
        meta == MapGet(stores.playMeta, id, EmptyMeta)
        Written(r) == [msgs |-> r.msgs, startGamingPlayers |-> r.startGamingPlayers,
                       playMeta |-> MapSet(stores.playMeta, id, r.meta)]
    IN
    IF newGame # NoGame /\ oldGame = NoGame THEN
      Written(OnStart(c.msgs, c.startGamingPlayers, meta, line, player, newGame, c.now))
    ELSE IF newGame # NoGame /\ oldGame # NoGame /\ newGame # oldGame THEN
      Written(OnSwitch(c.msgs, c.startGamingPlayers, line, player))
    ELSE IF Stopped(newGame, oldGame) THEN
      Written(OnStop(c.msgs, c.startGamingPlayers, oldGame, c.now))
    ELSE unchanged

----------------------------------------------------------------------------
(* broadcast(): sending-agent resolution (index.ts 829-831) *)

\* const botKey = channel.platform && channel.assignee ? `${platform}:${assignee}` : undefined
BotKey(channel) ==
  IF channel.platform # "" /\ channel.assignee # ""
  THEN <<channel.platform, channel.assignee>>
  ELSE NoBot

\* ResolveBot with ctx.bots[botKey] || Object.values(ctx.bots)[0]: a key that
\* is not registered falls back to the first bot.
ResolveBotFallsBack(channel, registry) ==
  IF BotKey(channel) # NoBot /\ BotKey(channel) \in Range(registry) THEN BotKey(channel)
  ELSE IF Len(registry) > 0 THEN registry[1] ELSE NoBot

\* const bot = botKey ? ctx.bots[botKey] : Object.values(ctx.bots)[0]
ResolveBot(channel, registry) ==
  IF BotKey(channel) # NoBot
  THEN IF BotKey(channel) \in Range(registry) THEN BotKey(channel) ELSE NoBot
  ELSE IF Len(registry) > 0 THEN registry[1] ELSE NoBot

----------------------------------------------------------------------------
(* sendBroadcast() (index.ts 847-891). The result is the log of the calls  *)
(* made to the drawer, the bot and the timer, and whether the call threw.  *)

Draw(op, who, result) ==
  [op |-> op, content |-> "", text |-> <<>>, who |-> who, result |-> result, ms |-> 0]

\* text is msgs where the content carries msgs.join('\n'), else empty
Send(content, text, who, ok) ==
  [op |-> "sendMessage", content |-> content, text |-> text, who |-> who,
   result |-> IF ok THEN "ok" ELSE "throw", ms |-> 0]

Delay(ms) ==
  [op |-> "setTimeout", content |-> "", text |-> <<>>, who |-> "", result |-> "ok", ms |-> ms]

\* PushDelay with the two numbers of line 875 added up for the offset.
PushDelayLate(sample) == sample + PUSH_DELAY_MIN + PUSH_DELAY_SPAN

\* Math.floor(Math.random() * 6000) + 4000
PushDelay(sample) == sample + PUSH_DELAY_MIN

\* await bot.sendMessage(channel.id, msgs.join('\n')) after the calls in log
SendText(log, msgs, ok) ==
  [log |-> Append(log, Send("text", msgs, "", ok)), thrown |-> ~ok]

\* What the environment does to the calls of one sendBroadcast():
\*   list   - result of drawFriendsStatus: "image", "empty" or "throw"
\*   send   - whether the 1st, 2nd sendMessage of text or list image succeeds
\*   card   - per player: drawStartGaming gives "image", "empty" or "throw"
\*   csend  - per player: whether sendMessage of the card succeeds
\*   random - per player: the sample of Math.random()
\* A call that a configuration never makes has one outcome here.
Oracles(cfg, n) ==
  LET mode == IF cfg.startBroadcastType \in {"", "part"} THEN "text_image"
              ELSE cfg.startBroadcastType
      lists == mode \in {"all", "list"}
      cards == mode \in {"text_image", "image"}
  IN [list : IF lists THEN {"image", "empty", "throw"} ELSE {"image"},
      send : IF lists THEN [1..2 -> BOOLEAN]
             ELSE IF mode = "image" THEN {[i \in 1..2 |-> TRUE]}
             ELSE {[i \in 1..2 |-> ok] : ok \in BOOLEAN},
      card : IF cards THEN [1..n -> {"image", "empty", "throw"}]
             ELSE {[i \in 1..n |-> "image"]},
      csend : IF cards THEN [1..n -> BOOLEAN] ELSE {[i \in 1..n |-> TRUE]},
      random : IF cards /\ cfg.enablePushDelay THEN [1..n -> RandomSamples]
               ELSE {[i \in 1..n |-> 0]}]

\* sendListImage without line 866: a roster that is not sent is not replaced
\* by the text.
sendListImageNoFallback(withText, msgs, o) ==
  LET draw == Draw("drawFriendsStatus", "", o.list)
      content == IF withText THEN "text+image" ELSE "image"
      text == IF withText THEN msgs ELSE <<>>
  IN [log |-> IF o.list = "image" THEN <<draw, Send(content, text, "", o.send[1])>>
              ELSE <<draw>>,
      thrown |-> FALSE]

sendListImage(withText, msgs, o) ==
  LET draw == Draw("drawFriendsStatus", "", o.list)
      content == IF withText THEN "text+image" ELSE "image"
      text == IF withText THEN msgs ELSE <<>>
  IN
  IF o.list = "image" /\ o.send[1]
  THEN [log |-> <<draw, Send(content, text, "", TRUE)>>, thrown |-> FALSE]
  ELSE
    LET tried == IF o.list = "image"
                 THEN <<draw, Send(content, text, "", FALSE)>>
                 ELSE <<draw>>
        next == IF o.list = "image" THEN 2 ELSE 1
    IN IF withText THEN SendText(tried, msgs, o.send[next])
       ELSE [log |-> tried, thrown |-> FALSE]

RECURSIVE PlayerImagesFrom(_, _, _, _)
PlayerImagesFrom(i, players, enablePushDelay, o) ==
  IF i > Len(players) THEN <<>>
  ELSE
    LET p == players[i]
        draw == Draw("drawStartGaming", p.steamid, o.card[i])
        step == IF o.card[i] = "image"
                THEN <<draw, Send("image", <<>>, p.steamid, o.csend[i])>>
                ELSE <<draw>>
        pause == IF enablePushDelay THEN <<Delay(PushDelay(o.random[i]))>> ELSE <<>>
    IN step \o pause \o PlayerImagesFrom(i + 1, players, enablePushDelay, o)

\* sendPlayerImages without line 875: the cards are sent back to back.
sendPlayerImagesUnpaced(players, enablePushDelay, o) ==
  PlayerImagesFrom(1, players, FALSE, o)

sendPlayerImages(players, enablePushDelay, o) ==
  PlayerImagesFrom(1, players, enablePushDelay, o)

Configured(cfg) ==
  IF cfg.startBroadcastType = "" THEN "text_image" ELSE cfg.startBroadcastType

\* BroadcastType with 'none' left out of the list of line 853.
BroadcastTypeWithoutNone(cfg) ==
  IF Configured(cfg) \in {"all", "part"} THEN Configured(cfg) ELSE "part"

BroadcastType(cfg) ==
  IF Configured(cfg) \in {"all", "part", "none"} THEN Configured(cfg) ELSE "part"

\* StartMode taking 'image' for 'text_image'.
StartModeTextFirst(cfg) ==
  IF Configured(cfg) \in {"all", "part", "none", "image"} THEN "text_image"
  ELSE Configured(cfg)

\* StartMode taking 'text' for 'text_image'.
StartModeTextWithCards(cfg) ==
  IF Configured(cfg) \in {"all", "part", "none", "text"} THEN "text_image"
  ELSE Configured(cfg)

StartMode(cfg) ==
  IF Configured(cfg) \in {"all", "part", "none"} THEN "text_image" ELSE Configured(cfg)

sendBroadcast(cfg, msgs, startGamingPlayers, o) ==
  IF BroadcastType(cfg) = "none" THEN SendText(<<>>, msgs, o.send[1])
  ELSE IF BroadcastType(cfg) = "all" THEN sendListImage(TRUE, msgs, o)
  ELSE IF Len(startGamingPlayers) > 0 THEN
    IF StartMode(cfg) = "list" THEN sendListImage(TRUE, msgs, o)
    ELSE IF StartMode(cfg) = "text_image" THEN
      LET text == SendText(<<>>, msgs, o.send[1])
      IN IF text.thrown THEN text
         ELSE [log |-> text.log \o sendPlayerImages(startGamingPlayers, cfg.enablePushDelay, o),
               thrown |-> FALSE]
    ELSE IF StartMode(cfg) = "image" THEN
      [log |-> sendPlayerImages(startGamingPlayers, cfg.enablePushDelay, o), thrown |-> FALSE]
    ELSE SendText(<<>>, msgs, o.send[1])
  ELSE SendText(<<>>, msgs, o.send[1])

----------------------------------------------------------------------------
(* broadcast(): end-of-cycle commit and eviction (index.ts 835-843) *)

RECURSIVE Upsert(_, _, _)
\* for (const p of currentSummaries) { statusCache.set(...); lastSeenAt.set(..., now) }
Upsert(stores, currentMap, now) ==
  IF DOMAIN currentMap = {} THEN stores
  ELSE
    LET id == CHOOSE x \in DOMAIN currentMap : TRUE
    IN Upsert([stores EXCEPT !.statusCache = MapSet(@, id, currentMap[id]),
                             !.lastSeenAt = MapSet(@, id, now)],
              MapDelete(currentMap, id), now)

\* if (now - ts > STALE_TTL_MS)
Stale(ts, now) == now - ts > STALE_TTL_MS

\* Evict without playMeta.delete(id).
EvictKeepsMeta(stores, now) ==
  LET gone == {id \in DOMAIN stores.lastSeenAt : Stale(stores.lastSeenAt[id], now)}
      Keep(m) == [x \in DOMAIN m \ gone |-> m[x]]
  IN [statusCache |-> Keep(stores.statusCache),
      playMeta |-> stores.playMeta,
      lastSeenAt |-> Keep(stores.lastSeenAt)]

\* for (const [id, ts] of lastSeenAt.entries()) if stale, delete from the three maps
Evict(stores, now) ==
  LET gone == {id \in DOMAIN stores.lastSeenAt : Stale(stores.lastSeenAt[id], now)}
      Keep(m) == [x \in DOMAIN m \ gone |-> m[x]]
  IN [statusCache |-> Keep(stores.statusCache),
      playMeta |-> Keep(stores.playMeta),
      lastSeenAt |-> Keep(stores.lastSeenAt)]

\* Commit with the two loops in the other order: eviction sees the last-seen
\* timestamps of the previous cycles.
CommitEvictsFirst(stores, currentMap, now) == Upsert(Evict(stores, now), currentMap, now)

Commit(stores, currentMap, now) == Evict(Upsert(stores, currentMap, now), now)

----------------------------------------------------------------------------
(* State of one call of the timer's callback *)

\* The record of the last classification, kept until the next step: the
\* binding, what the stores held for its identity before, and how many lines
\* and players the channel had before.
NoSeen ==
  [bind |-> 0, steamId |-> "", nickname |-> "", fetched |-> FALSE, cached |-> FALSE,
   old |-> NoSummary, current |-> NoSummary, hadMeta |-> FALSE, meta |-> EmptyMeta,
   localized |-> "", nMsgs |-> 0, nPlayers |-> 0]

\* The record of the channel the loop over channels has just finished with,
\* kept until the next step: the configuration and bot registry read, the
\* bot resolved, whether sendBroadcast was called, and its log.
NoDispatch ==
  [channel |-> "", msgs |-> <<>>, startGamingPlayers |-> <<>>, config |-> NoConfig,
   registry |-> <<>>, botKey |-> NoBot, bot |-> NoBot, called |-> FALSE, log |-> <<>>,
   thrown |-> FALSE]

\* pc is the position of the call; startCache, startSeenAt and startMeta are
\* the three maps as the call found them; result says how a call that is
\* about to return has ended; tick is the number of the tick that made the
\* call.
IdleCycle ==
  [pc |-> "idle", channels |-> <<>>, binds |-> <<>>, currentMap |-> <<>>, now |-> 0,
   ch |-> 0, b |-> 0, msgs |-> <<>>, startGamingPlayers |-> <<>>,
   seen |-> NoSeen, dispatch |-> NoDispatch,
   startCache |-> <<>>, startSeenAt |-> <<>>, startMeta |-> <<>>, result |-> "none",
   tick |-> 0]

Stores == [statusCache |-> statusCache, playMeta |-> playMeta, lastSeenAt |-> lastSeenAt]

\* ChannelBinds without the filter: every channel is classified with the
\* bindings of all the enabled channels.
ChannelBindsUnfiltered(c) == c.binds

\* const channelBinds = binds.filter(b => b.channelId === channel.id)
ChannelBinds(c) ==
  LET channel == c.channels[c.ch]
      OfChannel(bind) == bind.channelId = channel.id
  IN SelectSeq(c.binds, OfChannel)

\* const steamIds = [...new Set(binds.map(b => b.steamId))]
RequestedIds(binds) == {binds[i].steamId : i \in DOMAIN binds}

\* The summaries getPlayerSummaries may return for the requested ids: any
\* subset of them, each with what the API reports.
FetchResults(ids) ==
  UNION { {[id \in got |-> Summary(id, games[id])] :
             games \in {g \in [got -> {NoGame, "A", "B"}] :
                          \A id \in got : g[id] \in FetchableGames(id)}}
          : got \in SUBSET ids }

\* The call is about to return: its locals are gone, but for what the
\* properties read of them.
Ended(c, how) ==
  [IdleCycle EXCEPT !.pc = "return", !.result = how, !.currentMap = c.currentMap,
                    !.now = c.now, !.startCache = c.startCache,
                    !.startSeenAt = c.startSeenAt, !.startMeta = c.startMeta,
                    !.tick = c.tick]

\* An awaited call throws: control goes to the catch clause.
Thrown(c, dispatch) ==
  [c EXCEPT !.pc = "catch", !.seen = NoSeen, !.dispatch = dispatch]

\* The loop over channels moves on to the next channel, or leaves the loop.
NextChannel(c, dispatch) ==
  [c EXCEPT !.ch = c.ch + 1, !.b = 1, !.msgs = <<>>, !.startGamingPlayers = <<>>,
            !.seen = NoSeen, !.dispatch = dispatch,
            !.pc = IF c.ch + 1 > Len(c.channels) THEN "commit" ELSE "classify"]

\* CatchClause as it would be were the commit in a finally block.
CatchCommits(stores, currentMap, now) == Commit(stores, currentMap, now)

\* catch (err) { logger.error(`broadcast error: ${err}`) } (index.ts 844):
\* the clause writes none of the three maps.
CatchClause(stores, currentMap, now) == stores

----------------------------------------------------------------------------
(* Actions *)

Init ==
  /\ steam_channel = InitChannels
  /\ steam_bind = InitBinds
  /\ statusCache = <<>>
  /\ playMeta = <<>>
  /\ lastSeenAt = <<>>
  /\ skipFirstBroadcast \in BOOLEAN
  /\ ticks = 0
  /\ cyc = [k \in Slots |-> IdleCycle]
  /\ delivered = <<>>
  /\ commands = <<>>
  /\ startedAt = ticks
  /\ InitService

\* d milliseconds pass: the stored timestamps move back by d.
Earlier(ts, d) == IF ts = 0 THEN 0 ELSE ts - d

Timestamps ==
  {lastSeenAt[id] : id \in DOMAIN lastSeenAt}
    \cup {playMeta[id].lastLeftAt : id \in DOMAIN playMeta}

\* d milliseconds after the previous tick the timer fires: the callback
\* seeds the cache if skipFirstBroadcast is set and calls broadcast() if not
\* (index.ts 727-734).
Tick(k, d) ==
  /\ \A j \in Slots : cyc[j].pc = "idle"
  /\ ticks < MaxTicks
  /\ \A ts \in Timestamps : Now - Earlier(ts, d) <= MaxAge
  /\ ticks' = ticks + 1
  /\ lastSeenAt' = [id \in DOMAIN lastSeenAt |-> Earlier(lastSeenAt[id], d)]
  /\ playMeta' = [id \in DOMAIN playMeta |->
                    [playMeta[id] EXCEPT !.lastLeftAt = Earlier(@, d)]]
  /\ cyc' = [cyc EXCEPT ![k] =
               [IdleCycle EXCEPT !.pc = IF skipFirstBroadcast THEN "seed" ELSE "channels",
                                 !.tick = ticks + 1,
                                 !.startCache = statusCache,
                                 !.startSeenAt = lastSeenAt',
                                 !.startMeta = playMeta']]
  /\ UNCHANGED <<service, commands, startedAt, delivered, steam_channel, steam_bind, statusCache, skipFirstBroadcast>>

\* seedStatusCache(ctx), then skipFirstBroadcast = false (index.ts 728-731,
\* 774-783). getPlayerSummaries does not throw.
SeedStatusCache(k) ==
  /\ cyc[k].pc = "seed"
  /\ \E summaries \in FetchResults(RequestedIds(steam_bind)) :
       LET r == IF Len(steam_bind) = 0 THEN Stores ELSE Upsert(Stores, summaries, Now)
       IN /\ statusCache' = r.statusCache
          /\ lastSeenAt' = r.lastSeenAt
  /\ skipFirstBroadcast' = FALSE
  /\ cyc' = [cyc EXCEPT ![k] = Ended(@, "seeded")]
  /\ UNCHANGED <<service, commands, startedAt, delivered, steam_channel, steam_bind, playMeta, ticks>>

\* ctx.database.get throws in seedStatusCache (index.ts 775): the callback's
\* promise is rejected before skipFirstBroadcast is written.
SeedThrows(k) ==
  /\ cyc[k].pc = "seed"
  /\ cyc' = [cyc EXCEPT ![k] = Ended(@, "seed failed")]
  /\ UNCHANGED <<service, commands, startedAt, delivered, steam_channel, steam_bind, statusCache, playMeta, lastSeenAt,
                 skipFirstBroadcast, ticks>>

\* ctx.database.get throws in broadcast (index.ts 786, 789).
DatabaseThrows(k) ==
  /\ cyc[k].pc \in {"channels", "binds"}
  /\ cyc' = [cyc EXCEPT ![k] = Thrown(@, NoDispatch)]
  /\ UNCHANGED <<service, commands, startedAt, delivered, steam_channel, steam_bind, statusCache, playMeta, lastSeenAt,
                 skipFirstBroadcast, ticks>>

\* catch (err) { logger.error(`broadcast error: ${err}`) } (index.ts 844)
Catch(k) ==
  /\ cyc[k].pc = "catch"
  /\ LET r == CatchClause(Stores, cyc[k].currentMap, cyc[k].now)
     IN /\ statusCache' = r.statusCache
        /\ playMeta' = r.playMeta
        /\ lastSeenAt' = r.lastSeenAt
  /\ cyc' = [cyc EXCEPT ![k] = Ended(@, "aborted")]
  /\ UNCHANGED <<service, commands, startedAt, delivered, steam_channel, steam_bind, skipFirstBroadcast, ticks>>

\* const channels = await ctx.database.get('steam_channel', { enable: true })
\* if (!channels.length) return
LoadChannels(k) ==
  /\ cyc[k].pc = "channels"
  /\ LET IsEnabled(row) == row.enable
         channels == SelectSeq(steam_channel, IsEnabled)
     IN cyc' = [cyc EXCEPT ![k] =
                  IF Len(channels) = 0 THEN Ended(@, "no channels")
                  ELSE [@ EXCEPT !.pc = "binds", !.channels = channels]]
  /\ UNCHANGED <<service, commands, startedAt, delivered, steam_channel, steam_bind, statusCache, playMeta, lastSeenAt,
                 skipFirstBroadcast, ticks>>

\* const binds = await ctx.database.get('steam_bind', { channelId: channelIds })
\* if (!binds.length) return
LoadBinds(k) ==
  /\ cyc[k].pc = "binds"
  /\ LET channelIds == {cyc[k].channels[i].id : i \in DOMAIN cyc[k].channels}
         InChannels(bind) == bind.channelId \in channelIds
         binds == SelectSeq(steam_bind, InChannels)
     IN cyc' = [cyc EXCEPT ![k] =
                  IF Len(binds) = 0 THEN Ended(@, "no binds")
                  ELSE [@ EXCEPT !.pc = "fetch", !.binds = binds]]
  /\ UNCHANGED <<service, commands, startedAt, delivered, steam_channel, steam_bind, statusCache, playMeta, lastSeenAt,
                 skipFirstBroadcast, ticks>>

\* const currentSummaries = await ctx.steam.getPlayerSummaries(steamIds)
\* const now = Date.now()
Fetch(k) ==
  /\ cyc[k].pc = "fetch"
  /\ \E currentMap \in FetchResults(RequestedIds(cyc[k].binds)) :
       cyc' = [cyc EXCEPT ![k] = [@ EXCEPT !.pc = "classify", !.currentMap = currentMap,
                                             !.now = Now, !.ch = 1, !.b = 1]]
  /\ UNCHANGED <<service, commands, startedAt, delivered, steam_channel, steam_bind, statusCache, playMeta, lastSeenAt,
                 skipFirstBroadcast, ticks>>

\* What getLocalizedGameName can answer for the binding's fetched summary.
Localizations(c, bind) ==
  LET current == MapGet(c.currentMap, bind.steamId, NoSummary)
  IN IF current.gameid = "" THEN {""} ELSE {"", LocalizedName(current.gameid)}

\* One iteration of the loop over channelBinds (index.ts 802-826).
Classify(k) ==
  /\ cyc[k].pc = "classify"
  /\ cyc[k].b <= Len(ChannelBinds(cyc[k]))
  /\ LET c == cyc[k]
         bind == ChannelBinds(c)[c.b]
         id == bind.steamId
     IN \E localized \in Localizations(c, bind) :
          LET r == ClassifyBind(bind, c, Stores, localized)
              seen == [bind |-> c.b, steamId |-> id, nickname |-> bind.nickname,
                       fetched |-> id \in DOMAIN c.currentMap,
                       cached |-> id \in DOMAIN statusCache,
                       old |-> MapGet(statusCache, id, NoSummary),
                       current |-> MapGet(c.currentMap, id, NoSummary),
                       hadMeta |-> id \in DOMAIN playMeta,
                       meta |-> MapGet(playMeta, id, EmptyMeta),
                       localized |-> localized,
                       nMsgs |-> Len(c.msgs), nPlayers |-> Len(c.startGamingPlayers)]
          IN /\ cyc' = [cyc EXCEPT ![k] = [@ EXCEPT !.b = c.b + 1, !.msgs = r.msgs,
                                !.startGamingPlayers = r.startGamingPlayers,
                                !.seen = seen, !.dispatch = NoDispatch]]
             /\ playMeta' = r.playMeta
  /\ UNCHANGED <<service, commands, startedAt, delivered, steam_channel, steam_bind, statusCache, lastSeenAt,
                 skipFirstBroadcast, ticks>>

\* A channel's loop body that never leaves at line 828.
SkipsDispatchNever(msgs) == FALSE

\* if (!msgs.length) continue (index.ts 828)
SkipsDispatch(msgs) == Len(msgs) = 0

\* The end of the loop body for a channel (index.ts 828-831):
\* if (!msgs.length) continue; resolve the bot; if (!bot) continue.
\* The registry of bots is read here, as it is at that moment.
EndChannel(k) ==
  /\ cyc[k].pc = "classify"
  /\ cyc[k].b > Len(ChannelBinds(cyc[k]))
  /\ LET c == cyc[k]
         channel == c.channels[c.ch]
         base == [NoDispatch EXCEPT !.channel = channel.id, !.msgs = c.msgs,
                                    !.startGamingPlayers = c.startGamingPlayers]
     IN IF SkipsDispatch(c.msgs)
        THEN cyc' = [cyc EXCEPT ![k] = NextChannel(c, base)]
        ELSE \E registry \in BotRegistries :
               LET bot == ResolveBot(channel, registry)
                   resolved == [base EXCEPT !.registry = registry,
                                            !.botKey = BotKey(channel), !.bot = bot]
               IN cyc' = [cyc EXCEPT ![k] =
                            IF bot = NoBot THEN NextChannel(c, resolved)
                            ELSE [c EXCEPT !.pc = "send", !.seen = NoSeen,
                                           !.dispatch = resolved]]
  /\ UNCHANGED <<service, commands, startedAt, delivered, steam_channel, steam_bind, statusCache, playMeta, lastSeenAt,
                 skipFirstBroadcast, ticks>>

\* What a call of sendBroadcast can come to, for the configurations the
\* plugin can run with and what the drawer, the bot and Math.random() can do.
\* The configuration is read at the call: a reload of the plugin with another
\* configuration leaves the module's maps as they are.
SendResults(msgs, startGamingPlayers, keepLog) ==
  UNION { { LET r == sendBroadcast(cfg, msgs, startGamingPlayers, o)
            IN [config |-> IF keepLog THEN cfg ELSE NoConfig,
                log |-> IF keepLog THEN r.log ELSE <<>>,
                thrown |-> r.thrown]
            : o \in Oracles(cfg, Len(startGamingPlayers)) }
          : cfg \in Configs }

\* The line and the entry a binding can contribute to its channel.
Announcements(bind) ==
  UNION { { [line |-> Line(DisplayName(bind, Summary(bind.steamId, game)),
                           DisplayGameName(Summary(bind.steamId, game), localized)),
             player |-> StartGamingPlayer(bind, Summary(bind.steamId, game), localized)]
            : localized \in {"", LocalizedName(GameId(game))} }
          : game \in FetchableGames(bind.steamId) \ {NoGame} }

RECURSIVE InputsFrom(_, _)
\* The msgs and startGamingPlayers the bindings binds[i..] can build up.
InputsFrom(binds, i) ==
  IF i > Len(binds) THEN {[msgs |-> <<>>, startGamingPlayers |-> <<>>]}
  ELSE LET rest == InputsFrom(binds, i + 1)
       IN rest \cup
          { [msgs |-> <<a.line>> \o r.msgs,
             startGamingPlayers |-> <<a.player>> \o r.startGamingPlayers]
            : a \in Announcements(binds[i]), r \in rest }

\* Every msgs and startGamingPlayers a channel can be dispatched with.
DispatchInputs ==
  UNION { LET OfChannel(bind) == bind.channelId = channel.id
          IN InputsFrom(SelectSeq(InitBinds, OfChannel), 1)
          : channel \in Range(InitChannels) }

\* SendResults without the logs, tabulated.
SendTable ==
  [in \in DispatchInputs |-> SendResults(in.msgs, in.startGamingPlayers, FALSE)]

\* The cycle after the call of sendBroadcast has come to r: a throw goes to
\* the catch clause of broadcast(), a return to the next channel.
AfterSend(c, r) ==
  LET done == [c.dispatch EXCEPT !.config = r.config, !.called = TRUE,
                                 !.log = r.log, !.thrown = r.thrown,
                                 !.registry = <<>>]
  IN IF r.thrown THEN Thrown(c, done) ELSE NextChannel(c, done)

\* await sendBroadcast(ctx, config, bot, channel, msgs, startGamingPlayers, ...)
\* (index.ts 832). keepLog says whether the record of the call keeps its log.
SendStep(k, keepLog) ==
  /\ cyc[k].pc = "send"
  /\ LET c == cyc[k]
         results ==
           IF keepLog THEN SendResults(c.msgs, c.startGamingPlayers, TRUE)
           ELSE SendTable[[msgs |-> c.msgs, startGamingPlayers |-> c.startGamingPlayers]]
     IN \E r \in results : cyc' = [cyc EXCEPT ![k] = AfterSend(c, r)]
  /\ UNCHANGED <<service, commands, startedAt, delivered, steam_channel, steam_bind, statusCache, playMeta, lastSeenAt,
                 skipFirstBroadcast, ticks>>

CallSendBroadcast(k) == SendStep(k, FALSE)

LoggedSendBroadcast(k) == SendStep(k, TRUE)

\* The two loops after the loop over channels (index.ts 835-843).
CommitStep(k) ==
  /\ cyc[k].pc = "commit"
  /\ LET r == Commit(Stores, cyc[k].currentMap, cyc[k].now)
     IN /\ statusCache' = r.statusCache
        /\ playMeta' = r.playMeta
        /\ lastSeenAt' = r.lastSeenAt
  /\ cyc' = [cyc EXCEPT ![k] = Ended(@, "committed")]
  /\ UNCHANGED <<service, commands, startedAt, steam_channel, steam_bind, skipFirstBroadcast, ticks>>

CommitCycle(k) == CommitStep(k) /\ UNCHANGED delivered

\* The callback's promise settles.
Return(k) ==
  /\ cyc[k].pc = "return"
  /\ cyc' = [cyc EXCEPT ![k] = IdleCycle]
  /\ UNCHANGED <<service, commands, startedAt, delivered, steam_channel, steam_bind, statusCache, playMeta, lastSeenAt,
                 skipFirstBroadcast, ticks>>

Next ==
  \/ \E d \in Deltas : Tick(1, d)
  \/ SeedStatusCache(1)
  \/ SeedThrows(1)
  \/ DatabaseThrows(1)
  \/ Catch(1)
  \/ LoadChannels(1)
  \/ LoadBinds(1)
  \/ Fetch(1)
  \/ Classify(1)
  \/ EndChannel(1)
  \/ CallSendBroadcast(1)
  \/ CommitCycle(1)
  \/ Return(1)

Spec == Init /\ [][Next]_vars

----------------------------------------------------------------------------
(* One cycle with the log of its dispatches kept: the last tick of a run   *)
(* whose earlier cycles have filled the cache.                             *)

InitSend ==
  /\ steam_channel = InitChannels
  /\ steam_bind = InitBinds
  /\ statusCache \in FetchResults(SteamIds)
  /\ playMeta = <<>>
  /\ lastSeenAt = [id \in DOMAIN statusCache |-> Now]
  /\ skipFirstBroadcast = FALSE
  /\ ticks = MaxTicks - 1
  /\ cyc = [k \in Slots |-> IdleCycle]
  /\ delivered = <<>>
  /\ commands = <<>>
  /\ startedAt = ticks
  /\ InitService

NextSend ==
  \/ \E d \in Deltas : Tick(1, d)
  \/ DatabaseThrows(1)
  \/ Catch(1)
  \/ LoadChannels(1)
  \/ LoadBinds(1)
  \/ Fetch(1)
  \/ Classify(1)
  \/ EndChannel(1)
  \/ LoggedSendBroadcast(1)
  \/ CommitCycle(1)
  \/ Return(1)

SpecSend == InitSend /\ [][NextSend]_vars

----------------------------------------------------------------------------
(* Two cycles in a row from a filled cache, with the history of the lines  *)
(* that bots have accepted.                                                *)

\* A message that carries the lines has been accepted by the bot.
Accepted(log) ==
  \E i \in DOMAIN log :
    /\ log[i].op = "sendMessage"
    /\ log[i].content \in {"text", "text+image"}
    /\ log[i].result = "ok"

\* What a call of sendBroadcast can come to: whether it threw, and whether
\* the lines were accepted.
CountedResults(msgs, startGamingPlayers) ==
  { [config |-> NoConfig, log |-> <<>>, thrown |-> r.thrown, accepted |-> Accepted(r.log)]
    : r \in SendResults(msgs, startGamingPlayers, TRUE) }

\* CountedResults, tabulated.
CountedTable ==
  [in \in DispatchInputs |-> CountedResults(in.msgs, in.startGamingPlayers)]

RECURSIVE Counted(_, _, _, _)
\* delivered after the lines of players[i..] were accepted in the channel: a
\* line counts for the identity and the game that was fetched for it.
Counted(history, channelId, players, currentMap) ==
  IF Len(players) = 0 THEN history
  ELSE LET id == players[1].steamid
           key == <<channelId, id, currentMap[id].gameextrainfo>>
       IN Counted(MapSet(history, key, MapGet(history, key, 0) + 1),
                  channelId, Tail(players), currentMap)

\* delivered without the lines of the identities in ids
Forgotten(history, ids) ==
  [key \in {x \in DOMAIN history : x[2] \notin ids} |-> history[key]]

InitTwice ==
  /\ steam_channel = InitChannels
  /\ steam_bind = InitBinds
  /\ statusCache \in FetchResults(SteamIds)
  /\ playMeta = <<>>
  /\ lastSeenAt = [id \in DOMAIN statusCache |-> Now]
  /\ skipFirstBroadcast = FALSE
  /\ ticks = MaxTicks - 2
  /\ cyc = [k \in Slots |-> IdleCycle]
  /\ delivered = <<>>
  /\ commands = <<>>
  /\ startedAt = ticks
  /\ InitService

\* await sendBroadcast(...) (index.ts 832), counting the lines accepted
CountedSendBroadcast(k) ==
  /\ cyc[k].pc = "send"
  /\ LET c == cyc[k]
     IN \E r \in CountedTable[[msgs |-> c.msgs,
                                startGamingPlayers |-> c.startGamingPlayers]] :
          /\ cyc' = [cyc EXCEPT ![k] = AfterSend(c, r)]
          /\ delivered' = IF r.accepted
                          THEN Counted(delivered, c.dispatch.channel,
                                       c.startGamingPlayers, c.currentMap)
                          ELSE delivered
  /\ UNCHANGED <<service, commands, startedAt, steam_channel, steam_bind, statusCache, playMeta, lastSeenAt,
                 skipFirstBroadcast, ticks>>

\* The commit (index.ts 835-843): statusCache takes the fetched summaries, so
\* that what is fetched later is compared with them.
CountedCommit(k) ==
  /\ CommitStep(k)
  /\ delivered' = Forgotten(delivered, DOMAIN cyc[k].currentMap)

NextTwice ==
  \/ \E d \in Deltas : Tick(1, d)
  \/ DatabaseThrows(1)
  \/ Catch(1)
  \/ LoadChannels(1)
  \/ LoadBinds(1)
  \/ Fetch(1)
  \/ Classify(1)
  \/ EndChannel(1)
  \/ CountedSendBroadcast(1)
  \/ CountedCommit(1)
  \/ Return(1)

SpecTwice == InitTwice /\ [][NextTwice]_vars

----------------------------------------------------------------------------
(* One cycle from a filled cache, after commands have disabled channels    *)
(* and removed bindings.                                                   *)

\* The sessions the commands are called in: the channel, the user, and the
\* platform and the id of the bot that received the command.
Sessions ==
  [channelId : {"c1", "c2"}, userId : {"u1", "u2", "u3"},
   platform : {"onebot"}, selfId : {"b1"}]

\* An upsert that leaves only the written row in the table.
UpsertChannelOnly(rows, row) == <<row>>

\* ctx.database.upsert('steam_channel', [row]): the row with the id of row
\* takes the fields of row, or row is added.
UpsertChannel(rows, row) ==
  IF \E i \in DOMAIN rows : rows[i].id = row.id
  THEN [i \in DOMAIN rows |-> IF rows[i].id = row.id THEN row ELSE rows[i]]
  ELSE Append(rows, row)

\* steam.disable (index.ts 694-698)
SteamDisable(session) ==
  /\ \A j \in Slots : cyc[j].pc = "idle"
  /\ steam_channel' = UpsertChannel(steam_channel,
                         [id |-> session.channelId, enable |-> FALSE,
                          platform |-> session.platform, assignee |-> session.selfId])
  /\ UNCHANGED <<service, commands, startedAt, delivered, steam_bind, statusCache, playMeta, lastSeenAt,
                 skipFirstBroadcast, ticks, cyc>>

\* steam.unbind (index.ts 637-641)
SteamUnbind(session) ==
  /\ \A j \in Slots : cyc[j].pc = "idle"
  /\ LET Others(row) == ~(row.userId = session.userId /\ row.channelId = session.channelId)
     IN steam_bind' = SelectSeq(steam_bind, Others)
  /\ UNCHANGED <<service, commands, startedAt, delivered, steam_channel, statusCache, playMeta, lastSeenAt,
                 skipFirstBroadcast, ticks, cyc>>

NextPurge ==
  \/ \E session \in Sessions : SteamDisable(session)
  \/ \E session \in Sessions : SteamUnbind(session)
  \/ \E d \in Deltas : Tick(1, d)
  \/ DatabaseThrows(1)
  \/ Catch(1)
  \/ LoadChannels(1)
  \/ LoadBinds(1)
  \/ Fetch(1)
  \/ Classify(1)
  \/ EndChannel(1)
  \/ CallSendBroadcast(1)
  \/ CommitCycle(1)
  \/ Return(1)

SpecPurge == InitSend /\ [][NextPurge]_vars

----------------------------------------------------------------------------
(* steam.enable and steam.disable, at any moment of a cycle *)

\* The database after the upsert of steam.enable (enable TRUE) or
\* steam.disable (enable FALSE) for the session's channel.
SetEnable(rows, session, enable) ==
  UpsertChannel(rows, [id |-> session.channelId, enable |-> enable,
                       platform |-> session.platform, assignee |-> session.selfId])

\* steam.enable (index.ts 688-692)
SteamEnable(session) ==
  /\ steam_channel' = SetEnable(steam_channel, session, TRUE)
  /\ UNCHANGED <<service, commands, startedAt, delivered, steam_bind, statusCache, playMeta, lastSeenAt,
                 skipFirstBroadcast, ticks, cyc>>

\* steam.disable (index.ts 694-698), whether or not a cycle is in flight
SteamDisableAnytime(session) ==
  /\ steam_channel' = SetEnable(steam_channel, session, FALSE)
  /\ UNCHANGED <<service, commands, startedAt, delivered, steam_bind, statusCache, playMeta, lastSeenAt,
                 skipFirstBroadcast, ticks, cyc>>

\* The sessions of the users u1 of c1 and u3 of c2.
ChannelSessions ==
  {session \in Sessions : <<session.channelId, session.userId>> \in {<<"c1", "u1">>, <<"c2", "u3">>}}

NextChannels ==
  \/ \E session \in ChannelSessions : SteamEnable(session)
  \/ \E session \in ChannelSessions : SteamDisableAnytime(session)
  \/ \E d \in {DEBOUNCE_MS} : Tick(1, d)
  \/ DatabaseThrows(1)
  \/ Catch(1)
  \/ LoadChannels(1)
  \/ LoadBinds(1)
  \/ Fetch(1)
  \/ Classify(1)
  \/ EndChannel(1)
  \/ CallSendBroadcast(1)
  \/ CommitCycle(1)
  \/ Return(1)

SpecChannels == InitSend /\ [][NextChannels]_vars

----------------------------------------------------------------------------
(* steam.bind, steam.unbind and steam.nickname (index.ts 625-641, 716-723). *)
(* A command awaits each call of the database: between its read and its    *)
(* write the calls of other commands go through.                           *)

\* The most calls of commands in a behaviour, and the largest id of a row.
MaxCommands == 3
MaxRowId == 3

CommandUsers == {"u1", "u2"}
CommandChannel == "c1"
BindArguments == {<<"1">>, <<"9">>}
Nicknames == {"Nick", "Kim"}

NoRow == [id |-> 0, userId |-> "", channelId |-> "", steamId |-> <<>>, nickname |-> ""]

\* ctx.database.get('steam_bind', { userId, channelId })
BindsOf(rows, userId, channelId) ==
  LET Matches(row) == row.userId = userId /\ row.channelId = channelId
  IN SelectSeq(rows, Matches)

\* The ids autoInc can give a new row: the one after the largest id of the
\* table, or a later one when rows with larger ids have been removed.
NewIds(rows) ==
  LET used == {rows[i].id : i \in DOMAIN rows}
      next == IF used = {} THEN 1 ELSE (CHOOSE m \in used : \A n \in used : n <= m) + 1
  IN {id \in {next, next + 1} : id <= MaxRowId}

\* ctx.database.upsert('steam_bind', [{ userId, channelId, steamId }],
\* ['userId', 'channelId']): the rows of the user in the channel take steamId,
\* or, if there is none, a row is added with the id given.
UpsertBindByUser(rows, userId, channelId, steamId, id) ==
  IF Len(BindsOf(rows, userId, channelId)) > 0
  THEN [i \in DOMAIN rows |->
          IF rows[i].userId = userId /\ rows[i].channelId = channelId
          THEN [rows[i] EXCEPT !.steamId = steamId] ELSE rows[i]]
  ELSE Append(rows, [id |-> id, userId |-> userId, channelId |-> channelId,
                     steamId |-> steamId, nickname |-> ""])

\* ctx.database.upsert('steam_bind', [row]): the key is the primary key id;
\* the row of that id takes the fields of row, or row is added.
UpsertBindById(rows, row) ==
  IF \E i \in DOMAIN rows : rows[i].id = row.id
  THEN [i \in DOMAIN rows |-> IF rows[i].id = row.id THEN row ELSE rows[i]]
  ELSE Append(rows, row)

\* A call of a command: what it is, whose, what it holds and what it has
\* answered. bound says whether the user had a binding in the channel when
\* the call last touched the database, before the touch.
Command(op, userId, pc, held, nickname, reply, bound) ==
  [op |-> op, userId |-> userId, channelId |-> CommandChannel, pc |-> pc,
   held |-> held, nickname |-> nickname, reply |-> reply, bound |-> bound]

CommandStarts(c) ==
  /\ Len(commands) < MaxCommands
  /\ commands' = Append(commands, c)

\* steam.bind up to its write (index.ts 627-633): the argument is digits,
\* getSteamId gives targetId, the bindings of the user in the channel are
\* read; if there is one the answer is already_bound.
SteamBindRead(userId, steamId) ==
  LET targetId == getSteamId(steamId)
      existing == BindsOf(steam_bind, userId, CommandChannel)
  IN /\ IsDecimal(steamId)
     /\ targetId # Null
     /\ CommandStarts(
          IF Len(existing) > 0
          THEN Command("bind", userId, "done", [NoRow EXCEPT !.steamId = targetId], "",
                       "already_bound", TRUE)
          ELSE Command("bind", userId, "write", [NoRow EXCEPT !.steamId = targetId], "",
                       "", FALSE))
     /\ UNCHANGED <<service, startedAt, delivered, steam_channel, steam_bind, statusCache, playMeta,
                    lastSeenAt, skipFirstBroadcast, ticks, cyc>>

\* steam.bind from its write on (index.ts 634-635)
SteamBindWrite(n) ==
  /\ n \in DOMAIN commands
  /\ commands[n].op = "bind"
  /\ commands[n].pc = "write"
  /\ LET c == commands[n]
         bound == Len(BindsOf(steam_bind, c.userId, c.channelId)) > 0
     IN /\ bound \/ NewIds(steam_bind) # {}
        /\ \E id \in IF bound THEN {0} ELSE NewIds(steam_bind) :
             steam_bind' = UpsertBindByUser(steam_bind, c.userId, c.channelId,
                                            c.held.steamId, id)
        /\ commands' = [commands EXCEPT ![n] =
                          [c EXCEPT !.pc = "done", !.reply = "bind_success",
                                    !.bound = bound]]
  /\ UNCHANGED <<service, startedAt, delivered, steam_channel, statusCache, playMeta, lastSeenAt,
                 skipFirstBroadcast, ticks, cyc>>

\* steam.unbind (index.ts 637-641): the rows of the user in the channel are
\* removed.
SteamUnbindAnytime(userId) ==
  /\ LET Others(row) == ~(row.userId = userId /\ row.channelId = CommandChannel)
     IN steam_bind' = SelectSeq(steam_bind, Others)
  /\ CommandStarts(Command("unbind", userId, "done", NoRow, "", "",
                           Len(BindsOf(steam_bind, userId, CommandChannel)) > 0))
  /\ UNCHANGED <<service, startedAt, delivered, steam_channel, statusCache, playMeta, lastSeenAt,
                 skipFirstBroadcast, ticks, cyc>>

\* steam.nickname up to its write (index.ts 717-721): the bindings of the
\* user in the channel are read; if there is none the answer is not_bound.
SteamNicknameRead(userId, nickname) ==
  LET bind == BindsOf(steam_bind, userId, CommandChannel)
  IN /\ CommandStarts(
          IF Len(bind) = 0
          THEN Command("nickname", userId, "done", NoRow, nickname, "not_bound", FALSE)
          ELSE Command("nickname", userId, "write", bind[1], nickname, "", TRUE))
     /\ UNCHANGED <<service, startedAt, delivered, steam_channel, steam_bind, statusCache, playMeta,
                    lastSeenAt, skipFirstBroadcast, ticks, cyc>>

\* steam.nickname from its write on (index.ts 722-723):
\* upsert('steam_bind', [{ ...bind[0], nickname }])
SteamNicknameWrite(n) ==
  /\ n \in DOMAIN commands
  /\ commands[n].op = "nickname"
  /\ commands[n].pc = "write"
  /\ LET c == commands[n]
     IN /\ steam_bind' = UpsertBindById(steam_bind, [c.held EXCEPT !.nickname = c.nickname])
        /\ commands' = [commands EXCEPT ![n] =
                          [c EXCEPT !.pc = "done", !.reply = "nickname_set",
                                    !.bound = Len(BindsOf(steam_bind, c.userId,
                                                          c.channelId)) > 0]]
  /\ UNCHANGED <<service, startedAt, delivered, steam_channel, statusCache, playMeta, lastSeenAt,
                 skipFirstBroadcast, ticks, cyc>>

\* The table of bindings the commands start from: empty, or with a binding
\* of u1 in the channel.
InitCommands ==
  /\ steam_channel = InitChannels
  /\ steam_bind \in {<<>>, <<[id |-> 1, userId |-> "u1", channelId |-> CommandChannel,
                              steamId |-> getSteamId(<<"1">>), nickname |-> ""]>>}
  /\ statusCache = <<>>
  /\ playMeta = <<>>
  /\ lastSeenAt = <<>>
  /\ skipFirstBroadcast = FALSE
  /\ ticks = 0
  /\ cyc = [k \in Slots |-> IdleCycle]
  /\ delivered = <<>>
  /\ commands = <<>>
  /\ startedAt = ticks
  /\ InitService

NextCommands ==
  \/ \E userId \in CommandUsers, steamId \in BindArguments : SteamBindRead(userId, steamId)
  \/ \E n \in 1..MaxCommands : SteamBindWrite(n)
  \/ \E userId \in CommandUsers : SteamUnbindAnytime(userId)
  \/ \E userId \in CommandUsers, nickname \in Nicknames : SteamNicknameRead(userId, nickname)
  \/ \E n \in 1..MaxCommands : SteamNicknameWrite(n)

SpecCommands == InitCommands /\ [][NextCommands]_vars

----------------------------------------------------------------------------
(* The plugin disposed of and applied again. statusCache, playMeta and       *)
(* lastSeenAt are declared in the module, outside apply() (index.ts          *)
(* 610-612): they keep what they hold when the plugin is disposed of (736)   *)
(* and apply() runs again, as it does when Koishi reloads the plugin with a  *)
(* new configuration. The timer and skipFirstBroadcast are made anew.        *)

\* dispose, then apply(ctx, config) (index.ts 615, 725-736), between two
\* cycles.
Reapply ==
  /\ \A j \in Slots : cyc[j].pc = "idle"
  /\ ticks > startedAt
  /\ ticks < MaxTicks
  /\ startedAt' = ticks
  /\ skipFirstBroadcast' \in BOOLEAN
  /\ UNCHANGED <<service, commands, delivered, steam_channel, steam_bind, statusCache,
                 playMeta, lastSeenAt, ticks, cyc>>

\* The process has loaded the module and applied the plugin: one enabled
\* channel with one binding, of X, and empty maps.
InitRestart ==
  /\ steam_channel = SubSeq(InitChannels, 1, 1)
  /\ steam_bind = SubSeq(InitBinds, 1, 1)
  /\ statusCache = <<>>
  /\ playMeta = <<>>
  /\ lastSeenAt = <<>>
  /\ skipFirstBroadcast \in BOOLEAN
  /\ ticks = 0
  /\ cyc = [k \in Slots |-> IdleCycle]
  /\ delivered = <<>>
  /\ commands = <<>>
  /\ startedAt = ticks
  /\ InitService

NextRestart ==
  \/ Reapply
  \/ \E d \in Deltas : Tick(1, d)
  \/ SeedStatusCache(1)
  \/ SeedThrows(1)
  \/ DatabaseThrows(1)
  \/ Catch(1)
  \/ LoadChannels(1)
  \/ LoadBinds(1)
  \/ Fetch(1)
  \/ Classify(1)
  \/ EndChannel(1)
  \/ LoggedSendBroadcast(1)
  \/ CommitCycle(1)
  \/ Return(1)

SpecRestart == InitRestart /\ [][NextRestart]_vars

----------------------------------------------------------------------------
(* Ticks that do not wait. ctx.setInterval (index.ts 727-735) fires every   *)
(* steamRequestInterval seconds whether or not the promise of the previous *)
(* callback has settled, and broadcast() takes no lock: a call whose awaits *)
(* (requests, sends, pauses of 4 to 10 s per card) outlast the interval is  *)
(* still in flight at the next tick. Spec and the specifications above are  *)
(* the schedules in which every callback settles before the next tick;     *)
(* here a tick may come while another call is in flight.                   *)

\* d milliseconds pass for a call in flight: what it holds of timestamps
\* moves back by d.
Aged(c, d) ==
  [c EXCEPT !.now = Earlier(@, d),
            !.startSeenAt = [id \in DOMAIN @ |-> Earlier(@[id], d)],
            !.startMeta = [id \in DOMAIN @ |-> [@[id] EXCEPT !.lastLeftAt = Earlier(@, d)]],
            !.seen = [@ EXCEPT !.meta = [@ EXCEPT !.lastLeftAt = Earlier(@, d)]]]

\* The timer fires d milliseconds after the previous tick and the callback
\* seeds the cache if skipFirstBroadcast is set and calls broadcast() if not,
\* in the slot k, which is free.
TickInFlight(k, d) ==
  /\ cyc[k].pc = "idle"
  /\ ticks < MaxTicks
  /\ \A ts \in Timestamps : Now - Earlier(ts, d) <= MaxAge
  /\ ticks' = ticks + 1
  /\ lastSeenAt' = [id \in DOMAIN lastSeenAt |-> Earlier(lastSeenAt[id], d)]
  /\ playMeta' = [id \in DOMAIN playMeta |->
                    [playMeta[id] EXCEPT !.lastLeftAt = Earlier(@, d)]]
  /\ cyc' = [j \in Slots |->
               IF j = k
               THEN [IdleCycle EXCEPT !.pc = IF skipFirstBroadcast THEN "seed"
                                             ELSE "channels",
                                      !.tick = ticks + 1,
                                      !.startCache = statusCache,
                                      !.startSeenAt = lastSeenAt',
                                      !.startMeta = playMeta']
               ELSE Aged(cyc[j], d)]
  /\ UNCHANGED <<service, commands, startedAt, delivered, steam_channel, steam_bind, statusCache,
                 skipFirstBroadcast>>

\* The iteration for the binding awaits getLocalizedGameName (index.ts 810):
\* current and old are there, and current has a game and a gameid.
Awaits(c, bind) ==
  /\ ~Skips(bind.steamId, c.currentMap, statusCache)
  /\ c.currentMap[bind.steamId].gameextrainfo # NoGame
  /\ c.currentMap[bind.steamId].gameid # ""

\* An iteration of the loop over channelBinds that awaits nothing.
ClassifyAtOnce(k) ==
  /\ cyc[k].pc = "classify"
  /\ cyc[k].b <= Len(ChannelBinds(cyc[k]))
  /\ ~Awaits(cyc[k], ChannelBinds(cyc[k])[cyc[k].b])
  /\ Classify(k)

\* An iteration up to its await (index.ts 803-810): current and old have been
\* read, playMeta has not.
ClassifyAwait(k) ==
  /\ cyc[k].pc = "classify"
  /\ cyc[k].b <= Len(ChannelBinds(cyc[k]))
  /\ LET c == cyc[k]
         bind == ChannelBinds(c)[c.b]
         id == bind.steamId
     IN /\ Awaits(c, bind)
        /\ cyc' = [cyc EXCEPT ![k] =
                     [c EXCEPT !.pc = "localize", !.dispatch = NoDispatch,
                               !.seen = [NoSeen EXCEPT !.bind = c.b, !.steamId = id,
                                                       !.nickname = bind.nickname,
                                                       !.fetched = TRUE, !.cached = TRUE,
                                                       !.old = statusCache[id],
                                                       !.current = c.currentMap[id]]]]
  /\ UNCHANGED <<service, commands, startedAt, delivered, steam_channel, steam_bind, statusCache, playMeta,
                 lastSeenAt, skipFirstBroadcast, ticks>>

\* The iteration from its await on (index.ts 810-825): playMeta is read now,
\* old is what was read before the await.
ClassifyResume(k) ==
  /\ cyc[k].pc = "localize"
  /\ LET c == cyc[k]
         bind == ChannelBinds(c)[c.b]
         id == bind.steamId
         asRead == [Stores EXCEPT !.statusCache = MapSet(<<>>, id, c.seen.old)]
     IN \E localized \in Localizations(c, bind) :
          LET r == ClassifyBind(bind, c, asRead, localized)
          IN /\ cyc' = [cyc EXCEPT ![k] =
                          [c EXCEPT !.pc = "classify", !.b = c.b + 1, !.msgs = r.msgs,
                                    !.startGamingPlayers = r.startGamingPlayers,
                                    !.seen = [c.seen EXCEPT
                                                !.hadMeta = id \in DOMAIN playMeta,
                                                !.meta = MapGet(playMeta, id, EmptyMeta),
                                                !.localized = localized,
                                                !.nMsgs = Len(c.msgs),
                                                !.nPlayers = Len(c.startGamingPlayers)]]]
             /\ playMeta' = r.playMeta
  /\ UNCHANGED <<service, commands, startedAt, delivered, steam_channel, steam_bind, statusCache, lastSeenAt,
                 skipFirstBroadcast, ticks>>

\* What two overlapping calls start from: one enabled channel with one
\* binding, of X, whose summary was cached at the previous tick.
InitOverlap ==
  /\ steam_channel = SubSeq(InitChannels, 1, 1)
  /\ steam_bind = SubSeq(InitBinds, 1, 1)
  /\ \E game \in {NoGame, "A"} : statusCache = MapSet(<<>>, "X", Summary("X", game))
  /\ playMeta = <<>>
  /\ lastSeenAt = MapSet(<<>>, "X", Now)
  /\ skipFirstBroadcast = FALSE
  /\ ticks = MaxTicks - 2
  /\ cyc = [k \in Slots |-> IdleCycle]
  /\ delivered = <<>>
  /\ commands = <<>>
  /\ startedAt = ticks
  /\ InitService

NextOverlap ==
  \E k \in Slots :
    \/ \E d \in {DEBOUNCE_MS, STALE_TTL_MS + 1} : TickInFlight(k, d)
    \/ DatabaseThrows(k)
    \/ Catch(k)
    \/ LoadChannels(k)
    \/ LoadBinds(k)
    \/ Fetch(k)
    \/ ClassifyAtOnce(k)
    \/ ClassifyAwait(k)
    \/ ClassifyResume(k)
    \/ EndChannel(k)
    \/ CallSendBroadcast(k)
    \/ CommitCycle(k)
    \/ Return(k)

SpecOverlap == InitOverlap /\ [][NextOverlap]_vars

\* The process has loaded the module and applied the plugin with
\* steamDisableBroadcastOnStartup: one enabled channel with one binding, of
\* X, and empty maps.
InitSeed ==
  /\ steam_channel = SubSeq(InitChannels, 1, 1)
  /\ steam_bind = SubSeq(InitBinds, 1, 1)
  /\ statusCache = <<>>
  /\ playMeta = <<>>
  /\ lastSeenAt = <<>>
  /\ skipFirstBroadcast = TRUE
  /\ ticks = 0
  /\ cyc = [k \in Slots |-> IdleCycle]
  /\ delivered = <<>>
  /\ commands = <<>>
  /\ startedAt = ticks
  /\ InitService

\* Overlapping calls of the timer's callback, seedStatusCache included.
NextSeed ==
  \/ NextOverlap
  \/ \E k \in Slots : SeedStatusCache(k)
  \/ \E k \in Slots : SeedThrows(k)

SpecSeed == InitSeed /\ [][NextSeed]_vars

----------------------------------------------------------------------------
(* Calls of the service *)

\* The variables of the plugin, which a call of the service leaves alone.
plugin ==
  <<steam_channel, steam_bind, statusCache, playMeta, lastSeenAt,
    skipFirstBroadcast, ticks, cyc, delivered, commands, startedAt>>

\* A call of getLocalizedGameName(appid)
GetLocalizedGameName ==
  \E appid \in AppIds, responses \in [1..MAX_ATTEMPTS -> NameResponses] :
    LET r == getLocalizedGameName(gameNameCache, appid, responses)
    IN /\ gameNameCache' = r.cache
       /\ nameCall' = [called |-> TRUE, appid |-> appid, responses |-> responses,
                       hit |-> appid \in DOMAIN gameNameCache,
                       cached |-> MapGet(gameNameCache, appid, ""),
                       result |-> r.result, requests |-> r.requests,
                       waits |-> r.waits, thrown |-> r.thrown]
       /\ UNCHANGED <<plugin, summariesCall, steamIdCall>>

NextNames == GetLocalizedGameName

SpecNames == Init /\ [][NextNames]_vars

\* A call of getPlayerSummaries(steamIds). The function keeps no state from
\* one call to the next: a behaviour has one call.
GetPlayerSummaries ==
  /\ ~summariesCall.called
  /\ \E n \in IdCounts, keys \in KeyLists, enableIpCheck \in BOOLEAN,
     responses \in [1..MaxBatches -> [1..2 -> BatchResponses]] :
       LET r == getPlayerSummaries(SteamIdList(n), keys, responses, enableIpCheck)
       IN summariesCall' = [called |-> TRUE, steamIds |-> SteamIdList(n), keys |-> keys,
                            responses |-> responses, enableIpCheck |-> enableIpCheck,
                            players |-> r.players, requests |-> r.requests,
                            ipChecks |-> r.ipChecks, thrown |-> r.thrown]
  /\ UNCHANGED <<plugin, gameNameCache, nameCall, steamIdCall>>

NextSummaries == GetPlayerSummaries

SpecSummaries == Init /\ [][NextSummaries]_vars

\* A call of getSteamId(input)
GetSteamId ==
  /\ ~steamIdCall.called
  /\ \E input \in SteamIdInputs :
       steamIdCall' = [NoSteamIdCall EXCEPT !.called = TRUE, !.input = input,
                                            !.result = getSteamId(input)]
  /\ UNCHANGED <<plugin, gameNameCache, nameCall, summariesCall>>

\* A call of getSteamId on what the call before returned
GetSteamIdAgain ==
  /\ steamIdCall.called
  /\ ~steamIdCall.reapplied
  /\ steamIdCall.result # Null
  /\ steamIdCall' = [steamIdCall EXCEPT !.reapplied = TRUE,
                                        !.again = getSteamId(steamIdCall.result)]
  /\ UNCHANGED <<plugin, gameNameCache, nameCall, summariesCall>>

NextSteamId == GetSteamId \/ GetSteamIdAgain

SpecSteamId == Init /\ [][NextSteamId]_vars

----------------------------------------------------------------------------
(* Properties of the classification *)

\* C1: cold-start safety. A binding whose identity has no entry in statusCache
\* adds no line and no just-started entry and leaves the identity's entry of
\* playMeta as it was, whatever summary was fetched for it.
C1ColdStartSafety ==
  \A k \in Slots :
    LET c == cyc[k]
        s == c.seen
    IN (s.bind > 0 /\ ~s.cached) =>
         /\ Len(c.msgs) = s.nMsgs
         /\ Len(c.startGamingPlayers) = s.nPlayers
         /\ (s.steamId \in DOMAIN playMeta) = s.hadMeta
         /\ MapGet(playMeta, s.steamId, EmptyMeta) = s.meta

\* A binding of an identity never cached has been classified with a fetched
\* summary that names a game.
C1Witness ==
  \E k \in Slots :
    LET s == cyc[k].seen
    IN s.bind > 0 /\ ~s.cached /\ s.fetched /\ s.current.gameextrainfo # NoGame

\* C2: a cached identity idle in the cache and playing in the fetched summary,
\* with no recorded departure, or a recorded departure from another game, or
\* one at least DEBOUNCE_MS old, adds one line, which names the nickname if the
\* binding has one and the persona name if not, and the game (by its localized
\* name when the lookup gave one).
C2StartAnnounced ==
  \A k \in Slots :
    LET c == cyc[k]
        s == c.seen
        newGame == s.current.gameextrainfo
        name == IF s.nickname # "" THEN s.nickname ELSE s.current.personaname
        game == IF s.localized # "" THEN s.localized ELSE newGame
    IN (/\ s.bind > 0 /\ s.cached /\ s.fetched
        /\ s.old.gameextrainfo = NoGame /\ newGame # NoGame
        /\ \/ ~s.hadMeta
           \/ s.meta.lastLeftAt = 0
           \/ s.meta.lastLeftGame # newGame
           \/ c.now - s.meta.lastLeftAt >= DEBOUNCE_MS)
       => /\ Len(c.msgs) = s.nMsgs + 1
          /\ c.msgs[Len(c.msgs)] = [name |-> name, game |-> game]

\* A start has been announced under the binding's nickname for the game left
\* exactly DEBOUNCE_MS before.
C2Witness ==
  \E k \in Slots :
    LET c == cyc[k]
        s == c.seen
    IN /\ s.bind > 0 /\ s.cached /\ s.fetched /\ s.nickname # ""
       /\ s.old.gameextrainfo = NoGame /\ s.current.gameextrainfo # NoGame
       /\ s.meta.lastLeftAt # 0 /\ s.meta.lastLeftGame = s.current.gameextrainfo
       /\ c.now - s.meta.lastLeftAt = DEBOUNCE_MS
       /\ Len(c.msgs) = s.nMsgs + 1

\* C3: a cached identity idle in the cache that is fetched playing the game of
\* its recorded departure, less than DEBOUNCE_MS after that departure, adds no
\* line, and its record is cleared: a later stop writes a fresh record, and a
\* start at least DEBOUNCE_MS after that stop is announced (C2).
C3ResumeDebounced ==
  \A k \in Slots :
    LET c == cyc[k]
        s == c.seen
    IN (/\ s.bind > 0 /\ s.cached /\ s.fetched
        /\ s.old.gameextrainfo = NoGame /\ s.current.gameextrainfo # NoGame
        /\ s.meta.lastLeftAt # 0
        /\ s.meta.lastLeftGame = s.current.gameextrainfo
        /\ c.now - s.meta.lastLeftAt < DEBOUNCE_MS)
       => /\ Len(c.msgs) = s.nMsgs
          /\ s.steamId \in DOMAIN playMeta
          /\ playMeta[s.steamId] = EmptyMeta

\* A resume one millisecond inside the window has been classified.
C3Witness ==
  \E k \in Slots :
    LET c == cyc[k]
        s == c.seen
    IN /\ s.bind > 0 /\ s.cached /\ s.fetched
       /\ s.old.gameextrainfo = NoGame /\ s.current.gameextrainfo # NoGame
       /\ s.meta.lastLeftGame = s.current.gameextrainfo
       /\ c.now - s.meta.lastLeftAt = DEBOUNCE_MS - 1
       /\ Len(c.msgs) = s.nMsgs

C5StopRecorded ==
  \A k \in Slots :
    LET c == cyc[k]
        s == c.seen
    IN (/\ s.bind > 0 /\ s.cached /\ s.fetched
        /\ s.old.gameextrainfo # NoGame /\ s.current.gameextrainfo = NoGame)
       => /\ Len(c.msgs) = s.nMsgs
          /\ Len(c.startGamingPlayers) = s.nPlayers
          /\ s.steamId \in DOMAIN playMeta
          /\ playMeta[s.steamId] =
               [lastLeftAt |-> c.now, lastLeftGame |-> s.old.gameextrainfo]

\* A stop has replaced an older record of a departure.
C5Witness ==
  \E k \in Slots :
    LET c == cyc[k]
        s == c.seen
    IN /\ s.bind > 0 /\ s.cached /\ s.fetched
       /\ s.old.gameextrainfo # NoGame /\ s.current.gameextrainfo = NoGame
       /\ s.meta.lastLeftAt # 0 /\ s.meta.lastLeftAt < c.now
       /\ playMeta[s.steamId].lastLeftAt = c.now

----------------------------------------------------------------------------
(* Properties of the commit and of an aborted cycle *)

\* C6: when a cycle has committed, every identity whose last-seen timestamp,
\* as the commit leaves it (the cycle's now if the identity was fetched, what
\* the map held if not), is more than STALE_TTL_MS before the cycle's now is in
\* none of statusCache, lastSeenAt and playMeta; and a binding whose identity
\* is not in statusCache adds no line, so the next fetch of an evicted identity
\* is a cold start.
C6StaleEvicted ==
  \A k \in Slots :
    LET c == cyc[k]
        s == c.seen
    IN /\ (c.pc = "return" /\ c.result = "committed") =>
            \A id \in DOMAIN c.startSeenAt :
              (id \notin DOMAIN c.currentMap
                 /\ c.now - c.startSeenAt[id] > STALE_TTL_MS)
              => /\ id \notin DOMAIN statusCache
                 /\ id \notin DOMAIN lastSeenAt
                 /\ id \notin DOMAIN playMeta
       /\ (s.bind > 0 /\ ~s.cached) => Len(c.msgs) = s.nMsgs

\* A commit has evicted an identity last seen STALE_TTL_MS + 1 before, which
\* had a cached summary and a recorded departure.
C6Witness ==
  \E k \in Slots :
    LET c == cyc[k]
    IN /\ c.pc = "return" /\ c.result = "committed"
       /\ \E id \in DOMAIN c.startSeenAt :
            /\ id \notin DOMAIN c.currentMap
            /\ c.now - c.startSeenAt[id] = STALE_TTL_MS + 1
            /\ id \in DOMAIN c.startCache
            /\ id \in DOMAIN c.startMeta
            /\ c.startMeta[id].lastLeftAt # 0
            /\ id \notin DOMAIN statusCache

\* C7: from the start of a cycle until its commit, and when the cycle has
\* ended in the catch clause, statusCache and lastSeenAt are what they were
\* when the cycle started; the catch clause ends the call normally.
C7AbortLeavesCache ==
  \A k \in Slots :
    LET c == cyc[k]
    IN (\/ c.pc \in {"channels", "binds", "fetch", "classify", "send", "commit", "catch"}
        \/ c.pc = "return" /\ c.result = "aborted")
       => /\ statusCache = c.startCache
          /\ lastSeenAt = c.startSeenAt

\* A cycle has ended in the catch clause after fetching, for a cached identity,
\* a summary that differs from the cached one.
C7Witness ==
  \E k \in Slots :
    LET c == cyc[k]
    IN /\ c.pc = "return" /\ c.result = "aborted"
       /\ \E id \in DOMAIN c.currentMap :
            id \in DOMAIN statusCache /\ statusCache[id] # c.currentMap[id]

----------------------------------------------------------------------------
(* Properties of the dispatch *)

\* C8 as claimed: a sendMessage that throws aborts neither the rest of the
\* loop over channels nor the rest of the card images: the call does not end
\* in the catch clause of broadcast(), and where a card was drawn a card has
\* been drawn for every just-started player.
C8SendFailureIsolated ==
  \A k \in Slots :
    LET c == cyc[k]
        d == c.dispatch
        Failed(e) == e.op = "sendMessage" /\ e.result = "throw"
        Cards == {i \in DOMAIN d.log : d.log[i].op = "drawStartGaming"}
    IN (d.called /\ \E i \in DOMAIN d.log : Failed(d.log[i]))
       => /\ c.pc # "catch"
          /\ Cards # {} => Cardinality(Cards) = Len(d.startGamingPlayers)

\* C9 as claimed: after a drawing that threw or gave no image, with no
\* sendMessage carrying the lines before it, a sendMessage of the lines
\* follows.
C9RenderFailureFallsBack ==
  \A k \in Slots :
    LET d == cyc[k].dispatch
        RenderFailed(e) ==
          e.op \in {"drawFriendsStatus", "drawStartGaming"} /\ e.result \in {"empty", "throw"}
        CarriesText(e) == e.op = "sendMessage" /\ e.content \in {"text", "text+image"}
    IN d.called =>
         \A i \in DOMAIN d.log :
           (RenderFailed(d.log[i]) /\ \A j \in 1..(i - 1) : ~CarriesText(d.log[j]))
           => \E j \in (i + 1)..Len(d.log) : CarriesText(d.log[j])

\* C10 as claimed: for a channel with lines, the bot registered under the
\* channel's platform and assignee is used if there is one, another registered
\* bot is used if there is not, and the dispatch is skipped only if no bot is
\* registered.
C10AnyBotFallback ==
  \A k \in Slots :
    LET c == cyc[k]
        d == c.dispatch
    IN (d.channel # "" /\ d.msgs # <<>> /\ ~d.called) =>
         LET row == CHOOSE r \in Range(steam_channel) : r.id = d.channel
             key == <<row.platform, row.assignee>>
         IN /\ key \in Range(d.registry) => d.bot = key
            /\ (key \notin Range(d.registry) /\ d.registry # <<>>)
                 => d.bot \in Range(d.registry)
            /\ d.bot = NoBot => d.registry = <<>>
            /\ (c.pc = "send") = (d.bot # NoBot)

\* C10 as amended: a channel with a platform and an assignee is sent to by the
\* bot registered under them and is skipped if that bot is not registered,
\* whatever other bots are; a channel without a platform or without an
\* assignee is sent to by the first registered bot and is skipped if none is.
C10KeyedOrFirstBot ==
  \A k \in Slots :
    LET c == cyc[k]
        d == c.dispatch
    IN (d.channel # "" /\ d.msgs # <<>> /\ ~d.called) =>
         LET row == CHOOSE r \in Range(steam_channel) : r.id = d.channel
             key == <<row.platform, row.assignee>>
             keyed == row.platform # "" /\ row.assignee # ""
         IN /\ (keyed /\ key \in Range(d.registry)) => d.bot = key
            /\ (keyed /\ key \notin Range(d.registry)) => d.bot = NoBot
            /\ (~keyed /\ d.registry # <<>>) => d.bot = d.registry[1]
            /\ (~keyed /\ d.registry = <<>>) => d.bot = NoBot
            /\ (c.pc = "send") = (d.bot # NoBot)

\* A channel with lines, a platform and an assignee has been skipped while
\* another bot was registered.
C10Witness ==
  \E k \in Slots :
    LET c == cyc[k]
        d == c.dispatch
    IN /\ d.channel # "" /\ d.msgs # <<>> /\ ~d.called
       /\ d.botKey # NoBot /\ d.botKey \notin Range(d.registry)
       /\ d.registry # <<>>
       /\ d.bot = NoBot /\ c.pc # "send"

----------------------------------------------------------------------------
(* Properties of the cycle as a whole *)

\* C11: the commit is reached only when the loop over channels has finished;
\* when a cycle has committed, every fetched identity has its fetched summary
\* in statusCache and the cycle's now in lastSeenAt, and, because eviction runs
\* after the upserts, it is not evicted however old its previous timestamp
\* was: the record of a stop written for it in this cycle is still there.
C11CommitUpsertsFetched ==
  \A k \in Slots :
    LET c == cyc[k]
    IN /\ c.pc = "commit" => c.ch = Len(c.channels) + 1
       /\ (c.pc = "return" /\ c.result = "committed") =>
            \A id \in DOMAIN c.currentMap :
              /\ id \in DOMAIN statusCache
              /\ statusCache[id] = c.currentMap[id]
              /\ id \in DOMAIN lastSeenAt
              /\ lastSeenAt[id] = c.now
              /\ (/\ id \in DOMAIN c.startCache
                  /\ c.startCache[id].gameextrainfo # NoGame
                  /\ c.currentMap[id].gameextrainfo = NoGame)
                 => /\ id \in DOMAIN playMeta
                    /\ playMeta[id].lastLeftGame = c.startCache[id].gameextrainfo

\* A cycle has committed the summary of an identity that stopped playing and
\* was last seen more than STALE_TTL_MS before.
C11Witness ==
  \E k \in Slots :
    LET c == cyc[k]
    IN /\ c.pc = "return" /\ c.result = "committed"
       /\ \E id \in DOMAIN c.currentMap :
            /\ id \in DOMAIN c.startCache
            /\ c.startCache[id].gameextrainfo # NoGame
            /\ c.currentMap[id].gameextrainfo = NoGame
            /\ c.now - c.startSeenAt[id] > STALE_TTL_MS
            /\ statusCache[id] = c.currentMap[id]

\* C12 as claimed: a binding whose identity the fetch left out adds no line
\* and leaves the identity's record of playMeta as it was, and when the cycle
\* has ended the identity's entries of statusCache, lastSeenAt and playMeta
\* are what they were when the cycle started.
C12MissingUntouched ==
  \A k \in Slots :
    LET c == cyc[k]
        s == c.seen
    IN /\ (s.bind > 0 /\ ~s.fetched) =>
            /\ Len(c.msgs) = s.nMsgs
            /\ (s.steamId \in DOMAIN playMeta) = s.hadMeta
            /\ MapGet(playMeta, s.steamId, EmptyMeta) = s.meta
       /\ (c.pc = "return" /\ c.result \in {"committed", "aborted"}) =>
            \A id \in RequestedIds(steam_bind) \ DOMAIN c.currentMap :
              /\ (id \in DOMAIN statusCache) = (id \in DOMAIN c.startCache)
              /\ MapGet(statusCache, id, NoSummary) = MapGet(c.startCache, id, NoSummary)
              /\ (id \in DOMAIN lastSeenAt) = (id \in DOMAIN c.startSeenAt)
              /\ MapGet(lastSeenAt, id, 0) = MapGet(c.startSeenAt, id, 0)
              /\ (id \in DOMAIN playMeta) = (id \in DOMAIN c.startMeta)
              /\ MapGet(playMeta, id, EmptyMeta) = MapGet(c.startMeta, id, EmptyMeta)

\* C12 as amended: the same, but for an identity last seen more than
\* STALE_TTL_MS before the cycle's now, whose three entries the commit evicts.
C12MissingUntouchedUnlessStale ==
  \A k \in Slots :
    LET c == cyc[k]
        s == c.seen
    IN /\ (s.bind > 0 /\ ~s.fetched) =>
            /\ Len(c.msgs) = s.nMsgs
            /\ (s.steamId \in DOMAIN playMeta) = s.hadMeta
            /\ MapGet(playMeta, s.steamId, EmptyMeta) = s.meta
       /\ (c.pc = "return" /\ c.result \in {"committed", "aborted"}) =>
            \A id \in RequestedIds(steam_bind) \ DOMAIN c.currentMap :
              IF /\ c.result = "committed"
                 /\ id \in DOMAIN c.startSeenAt
                 /\ c.now - c.startSeenAt[id] > STALE_TTL_MS
              THEN /\ id \notin DOMAIN statusCache
                   /\ id \notin DOMAIN lastSeenAt
                   /\ id \notin DOMAIN playMeta
              ELSE /\ (id \in DOMAIN statusCache) = (id \in DOMAIN c.startCache)
                   /\ MapGet(statusCache, id, NoSummary) = MapGet(c.startCache, id, NoSummary)
                   /\ (id \in DOMAIN lastSeenAt) = (id \in DOMAIN c.startSeenAt)
                   /\ MapGet(lastSeenAt, id, 0) = MapGet(c.startSeenAt, id, 0)
                   /\ (id \in DOMAIN playMeta) = (id \in DOMAIN c.startMeta)
                   /\ MapGet(playMeta, id, EmptyMeta) = MapGet(c.startMeta, id, EmptyMeta)

\* A cycle has committed without a summary for a cached identity that was
\* playing and was last seen exactly STALE_TTL_MS before: its entries are kept.
C12Witness ==
  \E k \in Slots :
    LET c == cyc[k]
    IN /\ c.pc = "return" /\ c.result = "committed"
       /\ \E id \in RequestedIds(steam_bind) \ DOMAIN c.currentMap :
            /\ id \in DOMAIN c.startCache
            /\ c.startCache[id].gameextrainfo # NoGame
            /\ c.now - c.startSeenAt[id] = STALE_TTL_MS
            /\ id \in DOMAIN statusCache
            /\ c.currentMap # <<>>

\* C13: with skipFirstBroadcast set at the start, the first tick and no other
\* seeds, and when the seeding tick's callback is about to settle it has
\* consumed the flag, so that the next tick calls broadcast().
C13FirstTickSeedsOnce ==
  \A k \in Slots :
    LET c == cyc[k]
    IN /\ c.pc = "seed" => ticks = 1
       /\ (c.pc = "return" /\ c.result \in {"seeded", "seed failed"}) =>
            ~skipFirstBroadcast

----------------------------------------------------------------------------
(* Properties of the dispatch *)

\* C14: a channel whose bindings have produced no line gets no message: the
\* cycle does not call sendBroadcast for it, whatever the configured mode, so
\* nothing is drawn and nothing is sent.
C14NoLinesNoMessage ==
  \A k \in Slots :
    LET c == cyc[k]
        d == c.dispatch
    IN /\ c.pc = "send" => Len(c.msgs) > 0
       /\ (d.channel # "" /\ Len(d.msgs) = 0) => (~d.called /\ d.log = <<>>)
       /\ d.called => Len(d.msgs) > 0

\* The cycle has left a channel without a line although one of the channel's
\* bindings has just been recorded as having stopped playing.
C14Witness ==
  \E k \in Slots :
    LET c == cyc[k]
        d == c.dispatch
    IN /\ d.channel # "" /\ Len(d.msgs) = 0 /\ ~d.called
       /\ \E i \in DOMAIN c.binds :
            /\ c.binds[i].channelId = d.channel
            /\ c.binds[i].steamId \in DOMAIN playMeta
            /\ playMeta[c.binds[i].steamId].lastLeftAt = c.now

\* The rows of steam_bind at which the identity is bound in the channel.
C15Bindings(channelId, steamid) ==
  {j \in DOMAIN steam_bind : /\ steam_bind[j].channelId = channelId
                             /\ steam_bind[j].steamId = steamid}

\* msgs and startGamingPlayers go entry by entry, every entry is of an identity
\* bound in the channel and carries that binding's display name, and the
\* entries follow the order of the bindings, no binding having two.
C15InBindingOrder(channelId, msgs, players) ==
  /\ Len(players) = Len(msgs)
  /\ \A i \in DOMAIN players :
       /\ \E j \in C15Bindings(channelId, players[i].steamid) :
            /\ players[i].nickname = steam_bind[j].nickname
            /\ msgs[i].name = IF steam_bind[j].nickname # "" THEN steam_bind[j].nickname
                              ELSE players[i].personaname
       /\ msgs[i].game = players[i].gameextrainfo
  /\ \A i, j \in DOMAIN players :
       i < j => \A bi \in C15Bindings(channelId, players[i].steamid) :
                  \A bj \in C15Bindings(channelId, players[j].steamid) : bi < bj

\* The binding just classified is a start that is not debounced, or a switch.
C15StartedOrSwitched(s, now) ==
  /\ s.fetched /\ s.cached
  /\ s.current.gameextrainfo # NoGame
  /\ IF s.old.gameextrainfo = NoGame
     THEN \/ s.meta.lastLeftAt = 0
          \/ s.meta.lastLeftGame # s.current.gameextrainfo
          \/ now - s.meta.lastLeftAt >= DEBOUNCE_MS
     ELSE s.old.gameextrainfo # s.current.gameextrainfo

\* What C15 says of the lines: each binding classified adds one line and one
\* entry, its own, exactly when it is Started or Switched; the lists are in
\* binding order and of the channel's identities only; a call of sendBroadcast
\* is made for the channel the loop is at, with the channel's whole lists.
C15Lines ==
  \A k \in Slots :
    LET c == cyc[k]
        s == c.seen
        d == c.dispatch
        n == IF C15StartedOrSwitched(s, c.now) THEN 1 ELSE 0
    IN /\ s.bind > 0 =>
            /\ Len(c.msgs) = s.nMsgs + n
            /\ Len(c.startGamingPlayers) = s.nPlayers + n
            /\ n = 1 => c.startGamingPlayers[Len(c.startGamingPlayers)].steamid = s.steamId
       /\ c.pc \in {"classify", "send"} =>
            C15InBindingOrder(c.channels[c.ch].id, c.msgs, c.startGamingPlayers)
       /\ d.channel # "" =>
            /\ C15InBindingOrder(d.channel, d.msgs, d.startGamingPlayers)
            /\ d.channel = c.channels[IF c.pc \in {"send", "catch"} THEN c.ch ELSE c.ch - 1].id
       /\ c.pc = "send" => (d.msgs = c.msgs /\ d.startGamingPlayers = c.startGamingPlayers)
       /\ d.called => Len(d.msgs) >= 1

\* C15 as claimed: C15Lines, and sendBroadcast is called for every channel
\* that has at least one line.
C15DispatchedIfLines ==
  /\ C15Lines
  /\ \A k \in Slots :
       LET c == cyc[k]
           d == c.dispatch
       IN (d.channel # "" /\ c.pc # "send" /\ Len(d.msgs) >= 1) => d.called

\* C15 as amended: C15Lines, and sendBroadcast is called for every channel
\* that has at least one line and for which a bot is resolved, and for no other.
C15DispatchedIfLinesAndBot ==
  /\ C15Lines
  /\ \A k \in Slots :
       LET c == cyc[k]
           d == c.dispatch
       IN (d.channel # "" /\ c.pc # "send") =>
            (d.called <=> (Len(d.msgs) >= 1 /\ d.bot # NoBot))

\* sendBroadcast has been called for a channel with two lines, of which the
\* second is a switch.
C15Witness ==
  \E k \in Slots :
    LET c == cyc[k]
        d == c.dispatch
    IN /\ d.called /\ Len(d.msgs) = 2 /\ Len(d.startGamingPlayers) = 2
       /\ d.startGamingPlayers[1].steamid # d.startGamingPlayers[2].steamid
       /\ d.bot # NoBot

\* The calls of bot.sendMessage in a log, in order.
SentMessages(log) ==
  LET IsSend(e) == e.op = "sendMessage"
  IN SelectSeq(log, IsSend)

\* C16: with startBroadcastType 'none' a call of sendBroadcast makes one call
\* in all, a sendMessage of the lines joined: nothing is drawn and no image is
\* sent, however many players have just started.
C16NoneSendsTextOnce ==
  \A k \in Slots :
    LET d == cyc[k].dispatch
    IN (d.called /\ d.config.startBroadcastType = "none") =>
         /\ Len(d.log) = 1
         /\ d.log[1].op = "sendMessage"
         /\ d.log[1].content = "text"
         /\ d.log[1].text = d.msgs

\* sendBroadcast has run with 'none' for two players who have just started.
C16Witness ==
  \E k \in Slots :
    LET d == cyc[k].dispatch
    IN /\ d.called /\ d.config.startBroadcastType = "none"
       /\ Len(d.startGamingPlayers) = 2
       /\ Len(d.log) = 1 /\ d.log[1].result = "ok"

\* C17: where the mode is text_image (configured, or by default, or under
\* 'part') a card is sent only after the text has been sent; when every draw
\* gives an image and every send succeeds, the messages sent are the text and
\* then one card per player who has just started, in the order of the list;
\* with enablePushDelay there is, between two sends of cards, a pause of at
\* least PUSH_DELAY_MIN and less than PUSH_DELAY_MIN + PUSH_DELAY_SPAN.
C17TextThenCards ==
  \A k \in Slots :
    LET d == cyc[k].dispatch
        log == d.log
        sent == SentMessages(log)
        n == Len(d.startGamingPlayers)
        IsCard(e) == e.op = "sendMessage" /\ e.content = "image"
    IN (d.called /\ d.config.startBroadcastType \in {"", "part", "text_image"} /\ n >= 1) =>
         /\ \A i \in DOMAIN log :
              IsCard(log[i]) =>
                \E j \in 1..(i - 1) :
                  /\ log[j].op = "sendMessage" /\ log[j].content = "text"
                  /\ log[j].text = d.msgs /\ log[j].result = "ok"
         /\ (\A i \in DOMAIN log : log[i].result \in {"ok", "image"}) =>
              /\ ~d.thrown
              /\ Len(sent) = n + 1
              /\ sent[1].content = "text" /\ sent[1].text = d.msgs
              /\ \A i \in 1..n :
                   /\ sent[i + 1].content = "image"
                   /\ sent[i + 1].who = d.startGamingPlayers[i].steamid
         /\ d.config.enablePushDelay =>
              \A i, j \in DOMAIN log :
                (i < j /\ IsCard(log[i]) /\ IsCard(log[j])) =>
                  \E m \in (i + 1)..(j - 1) :
                    /\ log[m].op = "setTimeout"
                    /\ log[m].ms >= PUSH_DELAY_MIN
                    /\ log[m].ms < PUSH_DELAY_MIN + PUSH_DELAY_SPAN

\* sendBroadcast has run in mode text_image with enablePushDelay for two
\* players, and every draw and every send has succeeded.
C17Witness ==
  \E k \in Slots :
    LET d == cyc[k].dispatch
    IN /\ d.called /\ d.config.startBroadcastType = "text_image"
       /\ d.config.enablePushDelay
       /\ Len(d.startGamingPlayers) = 2
       /\ \A i \in DOMAIN d.log : d.log[i].result \in {"ok", "image"}
       /\ Len(SentMessages(d.log)) = 3

\* C18 as claimed: with 'all', and with 'list' when a player has just started,
\* a call of sendBroadcast calls sendMessage once: with the lines and the
\* roster when drawFriendsStatus gives an image, with the lines alone when it
\* throws or gives none.
C18RosterSentOnce ==
  \A k \in Slots :
    LET d == cyc[k].dispatch
        sent == SentMessages(d.log)
    IN (/\ d.called
        /\ \/ d.config.startBroadcastType = "all"
           \/ d.config.startBroadcastType = "list" /\ Len(d.startGamingPlayers) >= 1) =>
         /\ Len(d.log) >= 1 /\ d.log[1].op = "drawFriendsStatus"
         /\ Len(sent) = 1
         /\ sent[1].text = d.msgs
         /\ sent[1].content = IF d.log[1].result = "image" THEN "text+image" ELSE "text"

\* C18 as amended: the same, but that when the sendMessage of the lines with
\* the roster throws, sendMessage is called a second time, with the lines
\* alone.
C18RosterSentOnceUnlessSendThrows ==
  \A k \in Slots :
    LET d == cyc[k].dispatch
        sent == SentMessages(d.log)
    IN (/\ d.called
        /\ \/ d.config.startBroadcastType = "all"
           \/ d.config.startBroadcastType = "list" /\ Len(d.startGamingPlayers) >= 1) =>
         /\ Len(d.log) >= 1 /\ d.log[1].op = "drawFriendsStatus"
         /\ Len(sent) >= 1
         /\ sent[1].text = d.msgs
         /\ sent[1].content = IF d.log[1].result = "image" THEN "text+image" ELSE "text"
         /\ IF d.log[1].result = "image" /\ sent[1].result = "throw"
            THEN /\ Len(sent) = 2
                 /\ sent[2].content = "text"
                 /\ sent[2].text = d.msgs
            ELSE Len(sent) = 1

\* sendBroadcast has run with 'list': drawFriendsStatus has given no image
\* and the lines have been sent alone.
C18Witness ==
  \E k \in Slots :
    LET d == cyc[k].dispatch
        sent == SentMessages(d.log)
    IN /\ d.called /\ d.config.startBroadcastType = "list"
       /\ Len(d.startGamingPlayers) >= 1
       /\ d.log[1].result = "empty"
       /\ Len(sent) = 1 /\ sent[1].content = "text" /\ sent[1].result = "ok"

\* C19: with 'image' and at least one player who has just started, a call of
\* sendBroadcast sends no message that carries the lines; when every
\* drawStartGaming gives an image, sendMessage is called once per player with
\* the player's card, in the order of the list.
C19ImageSendsCardsOnly ==
  \A k \in Slots :
    LET d == cyc[k].dispatch
        sent == SentMessages(d.log)
        n == Len(d.startGamingPlayers)
    IN (d.called /\ d.config.startBroadcastType = "image" /\ n >= 1) =>
         /\ \A i \in DOMAIN sent : sent[i].content = "image" /\ sent[i].text = <<>>
         /\ (\A i \in DOMAIN d.log :
               d.log[i].op = "drawStartGaming" => d.log[i].result = "image") =>
              /\ Len(sent) = n
              /\ \A i \in 1..n : sent[i].who = d.startGamingPlayers[i].steamid

\* sendBroadcast has run with 'image' for two players: both cards have been
\* drawn, and the send of the first has thrown.
C19Witness ==
  \E k \in Slots :
    LET d == cyc[k].dispatch
        sent == SentMessages(d.log)
    IN /\ d.called /\ d.config.startBroadcastType = "image"
       /\ Len(d.startGamingPlayers) = 2
       /\ Len(sent) = 2
       /\ sent[1].result = "throw" /\ sent[2].result = "ok"

----------------------------------------------------------------------------
(* Properties across cycles *)

\* C20: at most once. Whatever cycles run, and however they end, a channel's
\* bot accepts at most one line for an identity and a game between two
\* writes of the identity's summary to statusCache, that is, for one start or
\* switch of the identity.
C20AtMostOnce ==
  \A key \in DOMAIN delivered : delivered[key] <= 1

----------------------------------------------------------------------------
(* Frame properties of the classification *)

\* C24: a binding whose identity is fetched with the game it has in the cache
\* (the same game, or none in both) adds no line and no just-started entry,
\* leaves the identity's record of playMeta as it was, present or not, and
\* leaves statusCache and lastSeenAt as the cycle found them.
C24SameActivityNoEffect ==
  \A k \in Slots :
    LET c == cyc[k]
        s == c.seen
    IN (/\ s.bind > 0 /\ s.fetched /\ s.cached
        /\ s.old.gameextrainfo = s.current.gameextrainfo) =>
         /\ Len(c.msgs) = s.nMsgs
         /\ Len(c.startGamingPlayers) = s.nPlayers
         /\ (s.steamId \in DOMAIN playMeta) = s.hadMeta
         /\ MapGet(playMeta, s.steamId, EmptyMeta) = s.meta
         /\ statusCache = c.startCache
         /\ lastSeenAt = c.startSeenAt

\* A binding has been classified whose identity is idle in the cache and in
\* the fetched summary and has a record of a departure.
C24Witness ==
  \E k \in Slots :
    LET s == cyc[k].seen
    IN /\ s.bind > 0 /\ s.fetched /\ s.cached
       /\ s.old.gameextrainfo = NoGame /\ s.current.gameextrainfo = NoGame
       /\ s.hadMeta /\ s.meta.lastLeftAt # 0
       /\ playMeta[s.steamId] = s.meta

\* C25: a step of a cycle that is classifying or dispatching leaves
\* statusCache and lastSeenAt as they are, and changes no record of playMeta
\* but that of the identity of the binding it classifies; statusCache changes
\* only in a step of the commit (or of the seeding).
C25ClassifyWritesOwnRecord ==
  [][\A k \in Slots :
       LET c == cyc[k]
           own == cyc'[k].seen.steamId
       IN /\ (c.pc \in {"classify", "send"} /\ cyc'[k] # c) =>
               /\ statusCache' = statusCache
               /\ lastSeenAt' = lastSeenAt
               /\ \A id \in (DOMAIN playMeta \cup DOMAIN playMeta') \ {own} :
                    /\ id \in DOMAIN playMeta /\ id \in DOMAIN playMeta'
                    /\ playMeta'[id] = playMeta[id]
          /\ statusCache' # statusCache =>
               \E j \in Slots : cyc[j].pc \in {"commit", "seed"}]_vars

\* The classification of a binding has written the record of its identity
\* while another identity has a record of a departure.
C25Witness ==
  \E k \in Slots :
    LET s == cyc[k].seen
    IN /\ s.bind > 0 /\ s.fetched /\ s.cached
       /\ MapGet(playMeta, s.steamId, EmptyMeta) # s.meta
       /\ \E id \in DOMAIN playMeta \ {s.steamId} : playMeta[id].lastLeftAt # 0

\* C26: the window of the debounce is half-open. An identity idle in the
\* cache that is fetched playing the game of its recorded departure adds a
\* line when now - lastLeftAt is DEBOUNCE_MS or more and none when it is less;
\* fetched playing another game than the recorded one, it adds a line however
\* recent the departure.
C26WindowHalfOpen ==
  \A k \in Slots :
    LET c == cyc[k]
        s == c.seen
        age == c.now - s.meta.lastLeftAt
    IN (/\ s.bind > 0 /\ s.fetched /\ s.cached
        /\ s.old.gameextrainfo = NoGame /\ s.current.gameextrainfo # NoGame
        /\ s.meta.lastLeftAt # 0) =>
         IF s.meta.lastLeftGame = s.current.gameextrainfo
         THEN /\ age >= DEBOUNCE_MS => Len(c.msgs) = s.nMsgs + 1
              /\ age < DEBOUNCE_MS => Len(c.msgs) = s.nMsgs
         ELSE Len(c.msgs) = s.nMsgs + 1

\* An identity that left one game less than DEBOUNCE_MS ago has been fetched
\* playing another, and the line has been added.
C26Witness ==
  \E k \in Slots :
    LET c == cyc[k]
        s == c.seen
    IN /\ s.bind > 0 /\ s.fetched /\ s.cached
       /\ s.old.gameextrainfo = NoGame /\ s.current.gameextrainfo # NoGame
       /\ s.meta.lastLeftAt # 0
       /\ s.meta.lastLeftGame # s.current.gameextrainfo
       /\ c.now - s.meta.lastLeftAt = DEBOUNCE_MS - 1
       /\ Len(c.msgs) = s.nMsgs + 1

----------------------------------------------------------------------------
(* Pacing *)

\* C29: with enablePushDelay, every drawStartGaming of a call of
\* sendBroadcast is followed, after at most the send of the card drawn, by a
\* pause, and every pause is of at least 4000 ms and at most 10000 ms;
\* without enablePushDelay the call makes no pause.
C29PausesWithinWindow ==
  \A k \in Slots :
    LET d == cyc[k].dispatch
        log == d.log
    IN d.called =>
         IF d.config.enablePushDelay
         THEN /\ \A i \in DOMAIN log :
                   log[i].op = "setTimeout" => (log[i].ms >= 4000 /\ log[i].ms <= 10000)
              /\ \A i \in DOMAIN log :
                   log[i].op = "drawStartGaming" =>
                     \E m \in (i + 1)..Len(log) :
                       /\ log[m].op = "setTimeout"
                       /\ \A j \in (i + 1)..(m - 1) :
                            /\ log[j].op = "sendMessage"
                            /\ log[j].content = "image"
                            /\ log[j].who = log[i].who
         ELSE \A i \in DOMAIN log : log[i].op # "setTimeout"

\* sendBroadcast has run with enablePushDelay for two players: the draw of
\* the first card threw, and the call has paused twice, the second time for
\* the longest pause there is.
C29Witness ==
  \E k \in Slots :
    LET d == cyc[k].dispatch
        log == d.log
        IsPause(e) == e.op = "setTimeout"
        pauses == SelectSeq(log, IsPause)
    IN /\ d.called /\ d.config.enablePushDelay
       /\ Len(d.startGamingPlayers) = 2
       /\ \E i \in DOMAIN log : log[i].op = "drawStartGaming" /\ log[i].result = "throw"
       /\ Len(pauses) = 2
       /\ pauses[2].ms = PUSH_DELAY_MIN + PUSH_DELAY_SPAN - 1

----------------------------------------------------------------------------
(* The purge *)

\* C21: when a call of broadcast() that has not thrown is about to return,
\* having committed or having found no enabled channel or no binding, no
\* identity is left in statusCache whose lastSeenAt is more than STALE_TTL_MS
\* before the time of the cycle, and playMeta has a record only for
\* identities that statusCache has.
C21PurgedAfterEveryCycle ==
  \A k \in Slots :
    LET c == cyc[k]
    IN (c.pc = "return" /\ c.result \in {"committed", "no channels", "no binds"}) =>
         /\ \A id \in DOMAIN statusCache :
              /\ id \in DOMAIN lastSeenAt
              /\ Now - lastSeenAt[id] <= STALE_TTL_MS
         /\ DOMAIN playMeta \subseteq DOMAIN statusCache

----------------------------------------------------------------------------
(* Properties of the service *)

\* C28: getLocalizedGameName does not throw. When gameNameCache has the appid
\* it returns the cached name and makes no request. When not, it makes at
\* least one request and at most three, a further one only after a request
\* that threw; it returns the name of the first answer with success, and
\* keeps it in gameNameCache; when the last request it makes does not give a
\* name it returns the empty string, so that the line shows the game under
\* its raw name.
C28NameLookupNeverThrows ==
  LET call == nameCall
      last == call.requests
  IN call.called =>
       /\ ~call.thrown
       /\ IF call.hit
          THEN call.requests = 0 /\ call.result = call.cached
          ELSE /\ last >= 1 /\ last <= 3
               /\ \A i \in 1..(last - 1) : call.responses[i] = "throw"
               /\ call.responses[last] = "throw" => last = 3
               /\ IF call.responses[last] = "name"
                  THEN /\ call.result = StoreName(call.appid)
                       /\ call.appid \in DOMAIN gameNameCache
                       /\ gameNameCache[call.appid] = call.result
                  ELSE /\ call.result = ""
                       /\ call.appid \notin DOMAIN gameNameCache
       /\ call.result = "" =>
            DisplayGameName(Summary("X", "A"), call.result) = "A"

\* getLocalizedGameName has been called for an appid that gameNameCache has
\* and has returned its name without a request, while the name of another
\* appid is not cached.
C28Witness ==
  /\ nameCall.called /\ nameCall.hit /\ nameCall.requests = 0
  /\ nameCall.result = StoreName(nameCall.appid)
  /\ \E appid \in AppIds : appid \notin DOMAIN gameNameCache

\* C30: getPlayerSummaries does not throw. It asks for the ids in
\* consecutive batches of at most 100, every batch of the list in its turn;
\* for a batch it tries the keys of the configuration in order, up to and
\* including the first whose answer has a player list; the result is the
\* summaries of the batches that a key answered, in the order of the list: a
\* batch no key answers adds nothing and takes nothing away. (An id of the
\* model is its position in the list.)
C30BatchesAndKeys ==
  LET call == summariesCall
      ids == call.steamIds
      n == Len(ids)
      nk == Len(call.keys)
      Answered(b) == \E k \in 1..nk : call.responses[b][k] = "players"
      FirstAnswer(b) == CHOOSE k \in 1..nk :
                          /\ call.responses[b][k] = "players"
                          /\ \A j \in 1..(k - 1) : call.responses[b][j] # "players"
      Tried(b) == IF Answered(b) THEN FirstAnswer(b) ELSE nk
      BatchOf(i) == ((i - 1) \div 100) + 1
      Kept == {i \in 1..n : Answered(BatchOf(i))}
  IN call.called =>
       /\ ~call.thrown
       /\ Len(call.requests) = (n + 99) \div 100
       /\ \A b \in DOMAIN call.requests :
            LET chunk == call.requests[b].chunk
            IN /\ Len(chunk) >= 1 /\ Len(chunk) <= 100
               /\ \A j \in DOMAIN chunk : chunk[j] = ids[(b - 1) * 100 + j]
               /\ b < Len(call.requests) => Len(chunk) = 100
               /\ call.requests[b].keys = SubSeq(call.keys, 1, Tried(b))
       /\ Len(call.players) = Cardinality(Kept)
       /\ \A j \in DOMAIN call.players : Answered(BatchOf(call.players[j]))
       /\ \A j \in 1..(Len(call.players) - 1) : call.players[j] < call.players[j + 1]

\* getPlayerSummaries has been called with 101 ids and two keys: no key
\* answered for the first batch, the second key answered for the second.
C30Witness ==
  LET call == summariesCall
  IN /\ call.called /\ Len(call.steamIds) = 101 /\ Len(call.keys) = 2
     /\ call.responses[1][1] = "throw" /\ call.responses[1][2] = "nothing"
     /\ call.responses[2][1] = "nothing" /\ call.responses[2][2] = "players"
     /\ call.players = <<101>>
     /\ call.enableIpCheck /\ call.ipChecks = 1

----------------------------------------------------------------------------
(* Properties of overlapping calls *)

\* C23: no two calls of the timer's callback are in flight at once: a tick
\* starts a call only when the call of the tick before has settled.
C23NoOverlap ==
  \A j, k \in Slots : j # k => (cyc[j].pc = "idle" \/ cyc[k].pc = "idle")

\* The three maps agree on their keys: statusCache and lastSeenAt have the
\* same ones, and playMeta has no other.
KeysAgree ==
  /\ DOMAIN statusCache = DOMAIN lastSeenAt
  /\ DOMAIN playMeta \subseteq DOMAIN statusCache

\* C27: in every reachable state statusCache and lastSeenAt have the same
\* keys, every key is an identity whose summary a fetch has returned (the
\* entry is a summary of that identity), every record of playMeta belongs to
\* an identity that statusCache has, and playMeta has one record per identity.
C27StoresConsistent ==
  /\ KeysAgree
  /\ \A id \in DOMAIN statusCache :
       \E game \in FetchableGames(id) : statusCache[id] = Summary(id, game)
  /\ \A id \in DOMAIN playMeta :
       /\ id \in SteamIds
       /\ DOMAIN playMeta[id] = DOMAIN EmptyMeta

\* C22: when two calls that overlapped have both finished, every entry of
\* statusCache is a summary that one of them fetched for the identity or that
\* was cached when they started, and the three maps agree on their keys.
C22OverlapHarmless ==
  (\A k \in Slots : cyc[k].pc = "return") =>
    /\ KeysAgree
    /\ \A id \in DOMAIN statusCache :
         \E k \in Slots :
           \/ /\ id \in DOMAIN cyc[k].currentMap
              /\ statusCache[id] = cyc[k].currentMap[id]
           \/ /\ id \in DOMAIN cyc[k].startCache
              /\ statusCache[id] = cyc[k].startCache[id]

----------------------------------------------------------------------------
(* Properties of the commands *)

\* The ids of the rows that are enabled.
C31EnabledIds(rows) == {rows[i].id : i \in {j \in DOMAIN rows : rows[j].enable}}

\* C31: a cycle dispatches only to the channels that were enabled when it
\* loaded its channels: what it loads are the rows enabled at that moment,
\* every call of sendBroadcast is for one of the loaded channels, whatever
\* steam.enable and steam.disable do afterwards; and a step that changes
\* steam_channel changes the row of one channel and nothing else in the
\* database or the maps.
C31OnlyEnabledAtLoad ==
  [][ /\ \A k \in Slots :
           /\ (cyc[k].pc = "channels" /\ cyc'[k].pc = "binds") =>
                 {cyc'[k].channels[i].id : i \in DOMAIN cyc'[k].channels}
                   = C31EnabledIds(steam_channel)
           /\ (cyc[k].pc = "channels" /\ cyc'[k].pc = "return"
                 /\ cyc'[k].result = "no channels") =>
                 C31EnabledIds(steam_channel) = {}
           /\ (cyc[k].pc = "send" /\ cyc'[k].dispatch.called) =>
                 \E i \in DOMAIN cyc[k].channels :
                   cyc[k].channels[i].id = cyc'[k].dispatch.channel
      /\ steam_channel' # steam_channel =>
           /\ \E id \in {"c1", "c2"} :
                /\ Len(steam_channel') = Len(steam_channel)
                /\ \A i \in DOMAIN steam_channel :
                     \/ steam_channel'[i] = steam_channel[i]
                     \/ steam_channel[i].id = id /\ steam_channel'[i].id = id
           /\ UNCHANGED <<steam_bind, statusCache, playMeta, lastSeenAt>>
    ]_vars

\* steam.enable has written the row of c2 and a cycle has called
\* sendBroadcast for c2.
C31Witness ==
  /\ cyc[1].dispatch.called
  /\ cyc[1].dispatch.channel = "c2"
  /\ \E i \in DOMAIN cyc[1].channels :
       cyc[1].channels[i].id = "c2" /\ cyc[1].channels[i].assignee = "b1"

----------------------------------------------------------------------------
(* Properties of getSteamId *)

RECURSIVE C34Value(_)
\* The number a short string of digits writes.
C34Value(str) ==
  IF Len(str) = 0 THEN 0
  ELSE 10 * C34Value(SubSeq(str, 1, Len(str) - 1)) + DigitValue(str[Len(str)])

C34AllDigits(str) == \A i \in DOMAIN str : str[i] \in Range(Digits)

\* The strings of the numbers from STEAM_ID_OFFSET on, among the inputs.
C34AtLeastOffset ==
  { BigIntToString(STEAM_ID_OFFSET),
    <<"7","6","5","6","1","1","9","7","9","6","0","2","6","5","7","2","9">>,
    <<"0","7","6","5","6","1","1","9","7","9","6","0","2","6","5","7","2","8">>,
    <<"9","9","9","9","9","9","9","9","9","9","9","9","9","9","9","9","9">>,
    <<"1","0","0","0","0","0","0","0","0","0","0","0","0","0","0","0","0","0">> }

\* 76561197960265727 + 76561197960265728
C34TwiceOffsetLessOne ==
  <<"1","5","3","1","2","2","3","9","5","9","2","0","5","3","1","4","5","5">>

\* C34: getSteamId returns null for an input that is not all decimal digits;
\* for a number below 76561197960265728 it returns the number plus
\* 76561197960265728, written in decimal, and for any other number the input
\* as it is; getSteamId of a result that is not null is that result.
C34GetSteamId ==
  steamIdCall.called =>
    LET input == steamIdCall.input
        result == steamIdCall.result
    IN /\ ~C34AllDigits(input) => result = Null
       /\ (C34AllDigits(input) /\ Len(input) \in 1..(MaxInputLen + 1)) =>
            /\ Len(result) = Len(STEAM_ID_OFFSET)
            /\ SubSeq(result, 1, 11) = SubSeq(BigIntToString(STEAM_ID_OFFSET), 1, 11)
            /\ C34Value(SubSeq(result, 12, 17)) = 265728 + C34Value(input)
       /\ Len(input) = 17 /\ C34Value(SubSeq(input, 1, 1)) = 7
            /\ C34Value(SubSeq(input, 17, 17)) = 7
            => result = C34TwiceOffsetLessOne
       /\ Len(input) = 19 /\ C34AllDigits(input) => result = C34TwiceOffsetLessOne
       /\ input \in C34AtLeastOffset => result = input
       /\ steamIdCall.reapplied => steamIdCall.again = result

\* getSteamId has added the offset to a number below it, and has been called
\* again on what it returned.
C34Witness ==
  /\ steamIdCall.reapplied
  /\ steamIdCall.input # steamIdCall.result
  /\ C34AllDigits(steamIdCall.input)

----------------------------------------------------------------------------
(* Properties of the bindings *)

\* No two rows of steam_bind are of the same user in the same channel.
C32OnePerUser ==
  \A i, j \in DOMAIN steam_bind :
    (steam_bind[i].userId = steam_bind[j].userId
       /\ steam_bind[i].channelId = steam_bind[j].channelId) => i = j

\* C32: whatever calls of steam.bind, steam.unbind and steam.nickname there
\* are and however they interleave, steam_bind has at most one row per user
\* and channel; and a steam.bind that finds a binding of the user in the
\* channel answers already_bound and leaves steam_bind as it is.
C32AtMostOneBinding ==
  /\ []C32OnePerUser
  /\ [][ \A n \in DOMAIN commands' :
           (n \notin DOMAIN commands /\ commands'[n].op = "bind" /\ commands'[n].bound) =>
             /\ commands'[n].reply = "already_bound"
             /\ commands'[n].pc = "done"
             /\ steam_bind' = steam_bind ]_vars

\* C40: steam.nickname creates no binding: when the write of a call of
\* steam.nickname is applied and the user has no binding in the channel, the
\* user has none afterwards.
C40NicknameCreatesNone ==
  [][ \A n \in DOMAIN commands :
        (commands[n].op = "nickname" /\ commands[n].pc = "write"
           /\ commands'[n].pc = "done"
           /\ Len(BindsOf(steam_bind, commands[n].userId, commands[n].channelId)) = 0) =>
          Len(BindsOf(steam_bind', commands[n].userId, commands[n].channelId)) = 0 ]_vars

----------------------------------------------------------------------------
(* Properties of the resolution of the mode *)

\* C33: startBroadcastType 'all', 'part' or 'none' is the broadcast type, with
\* the mode text_image; 'list', 'text_image', 'image' or 'text' is the mode,
\* with the broadcast type 'part'; unset, a call of sendBroadcast does what it
\* does with 'text_image'; and with 'text' a call makes one call in all, a
\* sendMessage of the lines joined, with no image.
C33ModeResolution ==
  \A k \in Slots :
    LET d == cyc[k].dispatch
        t == d.config.startBroadcastType
        asTextImage == [d.config EXCEPT !.startBroadcastType = "text_image"]
    IN d.called =>
         /\ BroadcastType(d.config) = IF t \in {"all", "part", "none"} THEN t ELSE "part"
         /\ StartMode(d.config) =
              IF t \in {"list", "text_image", "image", "text"} THEN t ELSE "text_image"
         /\ t = "" =>
              \E o \in Oracles(asTextImage, Len(d.startGamingPlayers)) :
                LET r == sendBroadcast(asTextImage, d.msgs, d.startGamingPlayers, o)
                IN r.log = d.log /\ r.thrown = d.thrown
         /\ t = "text" =>
              /\ Len(d.log) = 1
              /\ d.log[1].op = "sendMessage"
              /\ d.log[1].content = "text"
              /\ d.log[1].text = d.msgs

\* sendBroadcast has run with 'text' for two players who have just started,
\* and the one message has been sent.
C33Witness ==
  \E k \in Slots :
    LET d == cyc[k].dispatch
    IN /\ d.called /\ d.config.startBroadcastType = "text"
       /\ Len(d.startGamingPlayers) = 2
       /\ Len(d.log) = 1 /\ d.log[1].result = "ok" /\ ~d.thrown

----------------------------------------------------------------------------
(* Properties of an identity bound in two channels *)

\* Whether the first binding of the cycle, which the loop classified with
\* the maps as the cycle found them, gave a line.
C35FirstGaveLine(c) ==
  LET fresh == [c EXCEPT !.msgs = <<>>, !.startGamingPlayers = <<>>]
      found == [statusCache |-> c.startCache, playMeta |-> c.startMeta,
                lastSeenAt |-> c.startSeenAt]
  IN Len(ClassifyBind(c.binds[1], fresh, found, "").msgs) > 0

\* C35: X is bound in c1, where its binding is the first the cycle
\* classifies, and in c2. When the cycle has classified the binding of X in
\* c2, that binding has given a line if and only if the binding in c1 gave
\* one.
C35SameForEveryBinding ==
  \A k \in Slots :
    LET c == cyc[k]
    IN (/\ c.pc = "classify"
        /\ c.ch = 2
        /\ c.channels[1].id = "c1"
        /\ c.binds[1].steamId = "X"
        /\ c.seen.bind = 1
        /\ c.seen.steamId = "X") =>
         (Len(c.msgs) > c.seen.nMsgs <=> C35FirstGaveLine(c))

----------------------------------------------------------------------------
(* Properties of the arguments of sendBroadcast *)

\* C36: whenever sendBroadcast is about to be called or has been called,
\* with the arguments the record of the dispatch holds, startGamingPlayers is as long as
\* msgs, which is not empty, and its i-th entry is the player of the i-th
\* line: the line has the player's nickname, or else personaname, and the
\* name of the game of the entry. So the call is never made with lines and no
\* player, and the last branch of sendBroadcast (index.ts 888-890) is not
\* taken.
C36PlayersMatchLines ==
  \A k \in Slots :
    LET d == cyc[k].dispatch
    IN (cyc[k].pc = "send" \/ d.called) =>
         /\ Len(d.msgs) > 0
         /\ Len(d.startGamingPlayers) = Len(d.msgs)
         /\ \A i \in DOMAIN d.msgs :
              LET p == d.startGamingPlayers[i]
              IN /\ d.msgs[i].name = IF p.nickname # "" THEN p.nickname ELSE p.personaname
                 /\ d.msgs[i].game = p.gameextrainfo

\* sendBroadcast has been called for c1 with the lines of Nick, who is X, and
\* of Yvonne, in a cycle after the first.
C36Witness ==
  \E k \in Slots :
    LET d == cyc[k].dispatch
    IN /\ d.called /\ Len(d.msgs) = 2
       /\ d.msgs[1].name = "Nick" /\ d.msgs[2].name = "Yvonne"
       /\ d.startGamingPlayers[1].steamid = "X"
       /\ d.startGamingPlayers[2].steamid = "Y"

----------------------------------------------------------------------------
(* Properties of the first tick *)

\* The cycle in the slot is that of the first tick since apply() ran.
C37FirstTick(k) == cyc[k].pc # "idle" /\ ticks = startedAt + 1

\* No message has been sent by the call of sendBroadcast the slot records.
C37Silent(k) == SentMessages(cyc[k].dispatch.log) = <<>>

\* C37, as claimed: the cycle of the first tick after apply() sends no
\* message, whether skipFirstBroadcast is set or not.
C37FirstTickSilent ==
  \A k \in Slots : C37FirstTick(k) => C37Silent(k)

\* C37: the cycle of the first tick after apply() sends no message when
\* skipFirstBroadcast is set, for it only seeds, and when it is not set and
\* statusCache is empty, for then every binding is skipped.
C37FirstTickSilentIfColdOrSeeding ==
  \A k \in Slots :
    (/\ C37FirstTick(k)
     /\ \/ cyc[k].pc = "seed"
        \/ cyc[k].result \in {"seeded", "seed failed"}
        \/ cyc[k].startCache = <<>>) => C37Silent(k)

\* The first tick after apply(), with skipFirstBroadcast not set and
\* statusCache empty, has fetched X in a game and committed.
C37Witness ==
  /\ C37FirstTick(1)
  /\ cyc[1].startCache = <<>>
  /\ cyc[1].result = "committed"
  /\ "X" \in DOMAIN cyc[1].currentMap
  /\ cyc[1].currentMap["X"].gameextrainfo # NoGame
  /\ "X" \in DOMAIN statusCache

----------------------------------------------------------------------------
(* Properties of the order of commits *)

\* C38: a commit does not replace a summary by one fetched earlier: when a
\* cycle commits the summary of an identity that statusCache has, the time of
\* the cycle, read after its fetch, is not before the time of the cycle that
\* committed the summary in statusCache, which lastSeenAt holds.
C38CommitsNoOlderSummary ==
  [][ \A k \in Slots :
        (cyc[k].pc = "commit" /\ cyc'[k].pc = "return") =>
          \A id \in DOMAIN cyc[k].currentMap \cap DOMAIN lastSeenAt :
            lastSeenAt[id] <= cyc[k].now ]_vars


\* The call in the slot is one of seedStatusCache.
C39Seeds(k) == cyc[k].pc = "seed" \/ cyc[k].result \in {"seeded", "seed failed"}

\* C39: with skipFirstBroadcast set when apply() runs, the first tick and no
\* other seeds the cache: every call the timer makes is of seedStatusCache if
\* it is that of the first tick and of broadcast() if not.
C39OneTickSeeds ==
  \A k \in Slots :
    cyc[k].pc # "idle" => (C39Seeds(k) <=> cyc[k].tick = startedAt + 1)

====
